---- MODULE Spec2Model ----
(***************************************************************************)
(* Model of the force-directed layout engine of the fractal web viewer:    *)
(* edgeWeight (data-loader.ts) and the ForceSimulation class               *)
(* (app-state.ts, lines 233-554) together with the host's frame scheduler  *)
(* (requestAnimationFrame / cancelAnimationFrame) that drives it, the view  *)
(* that owns the simulation, and the AppState class (app-state.ts, lines   *)
(* 14-199) with the sidebar toggles its listeners write to.                *)
(*                                                                         *)
(* Numbers.  JavaScript numbers are modelled in fixed point: a position,   *)
(* velocity, length or force v is held as the integer v * Q, a unit vector *)
(* component or a ratio in [0,1] as the integer v * U, and a path weight   *)
(* as the integer v * WScale (every weight edgeWeight can produce from     *)
(* integer scores is an exact multiple of 1 / WScale).  Products are       *)
(* rounded to nearest.                                                     *)
(***************************************************************************)
EXTENDS Integers, Sequences, FiniteSets, TLC

\* ------------------------------------------------------------------------
\* Bounds of the model
\* ------------------------------------------------------------------------
NumGraphs == 4
NumSeeds == 2
MaxOps == 4
MaxPathNodes == 3
NumScores == 6
MaxLayer == 2
MaxViewOps == 3
NumParallel == 100
MaxTicks == 400
MaxCallDepth == 2
MaxCalls == 3

\* ------------------------------------------------------------------------
\* Number representation
\* ------------------------------------------------------------------------
Q == 100
U == 10000
WScale == 15000

Abs(a) == IF a < 0 THEN -a ELSE a
Min(a, b) == IF a < b THEN a ELSE b
Max(a, b) == IF a > b THEN a ELSE b

\* a / b rounded to the nearest integer, halves away from zero (b > 0)
DivRound(a, b) ==
  IF a >= 0 THEN (a + (b \div 2)) \div b ELSE -((-a + (b \div 2)) \div b)

\* a * b / c rounded to nearest (c > 0), without forming the product a * b
MulDivAbs(a, b, c) == (a \div c) * b + DivRound((a % c) * b, c)
MulDiv(a, b, c) ==
  IF (a < 0) = (b < 0) THEN MulDivAbs(Abs(a), Abs(b), c)
  ELSE -MulDivAbs(Abs(a), Abs(b), c)

RECURSIVE SqrtSearch(_, _, _)
SqrtSearch(n, lo, hi) ==
  IF lo >= hi THEN lo
  ELSE LET mid == (lo + hi + 1) \div 2
       IN  IF mid * mid <= n THEN SqrtSearch(n, mid, hi)
           ELSE SqrtSearch(n, lo, mid - 1)

\* floor of the square root of n, 0 <= n < 2^31
ISqrt(n) == SqrtSearch(n, 0, Min(n, 46340))

\* Math.hypot(dx, dy) on fixed-point arguments; when the squares would not
\* fit the integer width the arguments are first reduced by a factor of 10
Hypot(dx, dy) ==
  IF Abs(dx) <= 32000 /\ Abs(dy) <= 32000
  THEN ISqrt(dx * dx + dy * dy)
  ELSE 10 * ISqrt((dx \div 10) * (dx \div 10) + (dy \div 10) * (dy \div 10))

\* ------------------------------------------------------------------------
\* Types (fractal-types.ts)
\* ------------------------------------------------------------------------
Absent == -1
Infinity == 2000000000
NullHandle == 0

MkNode(id, kind, labelLen) == [id |-> id, kind |-> kind, labelLen |-> labelLen]
MkEdge(s, t, ty, m, i, c) ==
  [source |-> s, target |-> t, type |-> ty, meaning |-> m, influence |-> i, chronology |-> c]

\* ------------------------------------------------------------------------
\* data-loader.ts: edgeWeight
\* ------------------------------------------------------------------------
\* x ?? d
Nullish(x, d) == IF x = Absent THEN d ELSE x

\* a combined score that ignores influence and chronology
edgeScoreMeaningOnly(edge, metric) ==
  LET m == Nullish(edge.meaning, 70)
      i == Nullish(edge.influence, 50)
      c == Nullish(edge.chronology, 90)
  IN  CASE metric = "combined"   -> 270 * m
        [] metric = "meaning"    -> 270 * m
        [] metric = "influence"  -> 270 * i
        [] metric = "chronology" -> 270 * c
        [] OTHER                 -> 90 * (m + i + c)

\* 270 * score, an integer for every metric
edgeScore(edge, metric) ==
  LET m == Nullish(edge.meaning, 70)
      i == Nullish(edge.influence, 50)
      c == Nullish(edge.chronology, 90)
  IN  CASE metric = "combined"   -> 108 * m + 108 * i + 54 * c
        [] metric = "meaning"    -> 270 * m
        [] metric = "influence"  -> 270 * i
        [] metric = "chronology" -> 270 * c
        [] OTHER                 -> 90 * (m + i + c)

\* edgeWeight without the early return for lineage edges
edgeWeightNoLineage(edge, metric) ==
  WScale + (27000 - edgeScore(edge, metric))

\* WScale * (1 + 1.8 * ((100 - score) / 100))
edgeWeight(edge, metric) ==
  IF edge.type = "lineage" THEN WScale
  ELSE WScale + (27000 - edgeScore(edge, metric))

\* ------------------------------------------------------------------------
\* data-loader.ts: passByMetric
\* ------------------------------------------------------------------------
\* The combined score 0.4 * m + 0.4 * i + 0.2 * c is evaluated in IEEE-754
\* double precision, and its comparison with 60 depends on the rounding of
\* the two products and the two sums.  A double v that lies within rounding
\* distance of a multiple of 1/5 is held as the pair [a, b] with
\*     v = a / 5 + b / (5 * 2^56)
\* (a the exact value in fifths, b the rounding error so far).  The doubles
\* nearest to 0.4 and 0.2 are 0.4 * (1 + 2^-54) and 0.2 * (1 + 2^-54).
RECURSIVE Pow2(_)
Pow2(n) == IF n = 0 THEN 1 ELSE 2 * Pow2(n - 1)

\* 2^n modulo 5, and 2^n modulo 10 for n >= 1
Pow2Mod5(n) == <<1, 2, 4, 3>>[(n % 4) + 1]
Pow2Mod10(n) == <<6, 2, 4, 8>>[(n % 4) + 1]

\* v >= 2^e
atLeastPow2(d, e) ==
  IF e >= 0 THEN d.a > 5 * Pow2(e) \/ (d.a = 5 * Pow2(e) /\ d.b >= 0)
  ELSE d.a * Pow2(-e) >= 5

\* floor(log2(v)) for 0 < v < 512
binade(d) == CHOOSE e \in -4..8 : atLeastPow2(d, e) /\ ~atLeastPow2(d, e + 1)

\* the exact value d rounded to the nearest double, ties to even: the
\* doubles of its binade are the multiples of 2^(e - 52)
roundDouble(d) ==
  IF d.a = 0 THEN [a |-> 0, b |-> 0]
  ELSE LET s == binade(d) + 4
           n == 56 - s
           D == 5 * Pow2(s)
           \* d.a * 2^n = 5 * low + r
           r == ((d.a % 5) * Pow2Mod5(n)) % 5
           lowOdd == (((((d.a % 10) * Pow2Mod10(n)) % 10) - r) % 10) = 5
           F == Pow2(s) * r + d.b
           q == F \div D
           rem == F % D
           qOdd == IF q % 2 = 1 THEN ~lowOdd ELSE lowOdd
           k == IF 2 * rem > D \/ (2 * rem = D /\ qOdd) THEN q + 1 ELSE q
       IN  [a |-> d.a, b |-> Pow2(s) * (5 * k - r)]

\* 0.4 * x, 0.2 * x and x + y on doubles (x an integer score in the products)
timesPoint4(x) == roundDouble([a |-> 2 * x, b |-> 8 * x])
timesPoint2(x) == roundDouble([a |-> x, b |-> 4 * x])
plusDouble(x, y) == roundDouble([a |-> x.a + y.a, b |-> x.b + y.b])

\* v >= n for an integer n
atLeast(d, n) == d.a > 5 * n \/ (d.a = 5 * n /\ d.b >= 0)

\* passByMetric(meaning = 70, influence = 50, chronology = 90, metric)
passByMetric(meaning, influence, chronology, metric) ==
  LET m == Nullish(meaning, 70)
      i == Nullish(influence, 50)
      c == Nullish(chronology, 90)
  IN  CASE metric = "combined" ->
             atLeast(plusDouble(plusDouble(timesPoint4(m), timesPoint4(i)), timesPoint2(c)), 60)
        [] metric = "meaning"    -> m >= 65
        [] metric = "influence"  -> i >= 50
        [] metric = "chronology" -> c >= 85
        [] OTHER                 -> FALSE

\* ------------------------------------------------------------------------
\* data-loader.ts: nodeAllowed, nodeVisible, buildActiveGraph
\* ------------------------------------------------------------------------
\* the layer of the archetype nodes, which is the string 'archetypes'
ArchetypesLayer == -2

MkDataNode(id, kind, layer, group) == [id |-> id, kind |-> kind, layer |-> layer, group |-> group]

\* nodeAllowed(node, layerCap); layerCap is parseInt(layerCap)
nodeAllowed(node, layerCap) ==
  IF node.layer = ArchetypesLayer THEN TRUE
  ELSE IF node.kind = "wave" THEN TRUE
  ELSE node.layer <= layerCap

\* nodeVisible(node, state); state.religions holds the groups switched off
nodeVisible(node, state) ==
  IF node.kind = "religion"
  THEN state.showReligions /\ node.group \notin state.religionsOff
  ELSE /\ (state.showScience \/ node.kind # "science")
       /\ (state.showWaves \/ node.kind # "wave")
       /\ (state.showArchetypes \/ node.kind # "archetype")
       /\ (state.showPhilosophy \/ node.kind # "philosophy")

\* nodeMap.get(id): the last active node with this id, or none
nodeMapHas(activeNodes, id) == \E k \in 1..Len(activeNodes) : activeNodes[k].id = id

nodeMapGet(activeNodes, id) ==
  activeNodes[CHOOSE k \in 1..Len(activeNodes) :
                activeNodes[k].id = id /\ \A j \in (k + 1)..Len(activeNodes) : activeNodes[j].id # id]

\* an edge test that looks at the source endpoint only
endpointsShownSourceOnly(edge, activeNodes, state) ==
  /\ nodeMapHas(activeNodes, edge.source)
  /\ nodeVisible(nodeMapGet(activeNodes, edge.source), state)

\* the test common to the three edge loops: both endpoints are active
\* (nodeIds.has and nodeMap.get) and visible according to the toggles
endpointsShown(edge, activeNodes, state) ==
  /\ nodeMapHas(activeNodes, edge.source)
  /\ nodeMapHas(activeNodes, edge.target)
  /\ nodeVisible(nodeMapGet(activeNodes, edge.source), state)
  /\ nodeVisible(nodeMapGet(activeNodes, edge.target), state)

\* x || 0 on a score
OrZero(x) == IF x = Absent THEN 0 ELSE x

\* buildActiveGraph(state) over the data set data = [nodes, lineageEdges,
\* resonanceEdges, waveEdges]
buildActiveGraph(data, state) ==
  LET Allowed(n) == nodeAllowed(n, state.layerCap)
      activeNodes == SelectSeq(data.nodes, Allowed)
      Shown(e) == endpointsShown(e, activeNodes, state)
      Resonant(e) == /\ passByMetric(OrZero(e.meaning), OrZero(e.influence),
                                     OrZero(e.chronology), state.metric)
                     /\ Shown(e)
  IN  [nodes |-> activeNodes,
       edges |-> SelectSeq(data.lineageEdges, Shown)
                 \o (IF state.showResonances THEN SelectSeq(data.resonanceEdges, Resonant)
                     ELSE <<>>)
                 \o (IF state.showWaves THEN SelectSeq(data.waveEdges, Shown) ELSE <<>>)]

\* ------------------------------------------------------------------------
\* app-state.ts: ForceSimulation.shortestDistances
\* ------------------------------------------------------------------------
\* an adjacency list that records each edge at its source only
RECURSIVE adjacencyOfDirected(_, _, _)
adjacencyOfDirected(es, metric, id) ==
  IF es = <<>> THEN <<>>
  ELSE LET edge == Head(es)
           w == edgeWeight(edge, metric)
           a == IF edge.source = id THEN << <<edge.target, w>> >> ELSE <<>>
       IN  a \o adjacencyOfDirected(Tail(es), metric, id)

\* adjacency.get(id): the [neighbor, weight] pairs pushed for id, in order
\* (the pairs of the first half of the edge list, then those of the second)
RECURSIVE adjacencyOf(_, _, _)
adjacencyOf(es, metric, id) ==
  IF es = <<>> THEN <<>>
  ELSE IF Len(es) = 1
  THEN LET edge == es[1]
           w == edgeWeight(edge, metric)
           a == IF edge.source = id THEN << <<edge.target, w>> >> ELSE <<>>
           b == IF edge.target = id THEN << <<edge.source, w>> >> ELSE <<>>
       IN  a \o b
  ELSE LET mid == Len(es) \div 2
       IN  adjacencyOf(SubSeq(es, 1, mid), metric, id)
             \o adjacencyOf(SubSeq(es, mid + 1, Len(es)), metric, id)

\* adjacency.has(id)
adjacencyHas(es, id) == \E k \in 1..Len(es) : es[k].source = id \/ es[k].target = id

\* insert an entry behind every entry whose distance is not larger (stable)
RECURSIVE insertSorted(_, _)
insertSorted(q, e) ==
  IF q = <<>> THEN <<e>>
  ELSE IF e[1] < Head(q)[1] THEN <<e>> \o q
  ELSE <<Head(q)>> \o insertSorted(Tail(q), e)

\* queue.sort((a, b) => a[0] - b[0])
RECURSIVE sortQueue(_)
sortQueue(q) ==
  IF q = <<>> THEN <<>>
  ELSE insertSorted(sortQueue(SubSeq(q, 1, Len(q) - 1)), q[Len(q)])

\* a relaxation that gives a distance to a neighbor the map does not hold
RECURSIVE relaxNeighborsAddsUnknown(_, _, _)
relaxNeighborsAddsUnknown(st, currentDist, neighbors) ==
  IF neighbors = <<>> THEN st
  ELSE LET neighbor == Head(neighbors)[1]
           newDist == currentDist + Head(neighbors)[2]
           smaller == neighbor \notin DOMAIN st.dist \/ newDist < st.dist[neighbor]
           st2 == IF smaller
                  THEN [dist |-> (neighbor :> newDist) @@ st.dist,
                        queue |-> Append(st.queue, <<newDist, neighbor>>)]
                  ELSE st
       IN  relaxNeighborsAddsUnknown(st2, currentDist, Tail(neighbors))

\* the for loop over the neighbors of the node taken from the queue;
\* st = [dist, queue]; a neighbor without an entry in distances compares
\* against undefined, which is never smaller
\* (the neighbors of the first half of the list are handled, then, on the
\* map and queue these leave, those of the second half)
RECURSIVE relaxNeighbors(_, _, _)
relaxNeighbors(st, currentDist, neighbors) ==
  IF neighbors = <<>> \/ DOMAIN st.dist = {} THEN st
  ELSE IF Len(neighbors) = 1
  THEN LET neighbor == neighbors[1][1]
           newDist == currentDist + neighbors[1][2]
           smaller == neighbor \in DOMAIN st.dist /\ newDist < st.dist[neighbor]
       IN  IF smaller
           THEN [dist |-> [st.dist EXCEPT ![neighbor] = newDist],
                 queue |-> Append(st.queue, <<newDist, neighbor>>)]
           ELSE st
  ELSE LET mid == Len(neighbors) \div 2
       IN  relaxNeighbors(relaxNeighbors(st, currentDist, SubSeq(neighbors, 1, mid)),
                          currentDist, SubSeq(neighbors, mid + 1, Len(neighbors)))

\* the while loop of Dijkstra's algorithm
RECURSIVE dijkstraLoop(_, _, _)
dijkstraLoop(st, es, metric) ==
  IF st.queue = <<>> THEN st.dist
  ELSE LET sorted == sortQueue(st.queue)
           currentDist == Head(sorted)[1]
           currentNode == Head(sorted)[2]
           rest == [dist |-> st.dist, queue |-> Tail(sorted)]
       IN  IF currentDist > st.dist[currentNode]
           THEN dijkstraLoop(rest, es, metric)
           ELSE dijkstraLoop(relaxNeighbors(rest, currentDist,
                                            adjacencyOf(es, metric, currentNode)),
                             es, metric)

\* an iteration that reads the head of the queue and leaves it there
dijkstraIterationNoShift(st, es, metric) ==
  LET sorted == sortQueue(st.queue)
      currentDist == Head(sorted)[1]
      currentNode == Head(sorted)[2]
      rest == [dist |-> st.dist, queue |-> sorted]
  IN  IF currentDist > st.dist[currentNode] THEN rest
      ELSE relaxNeighbors(rest, currentDist, adjacencyOf(es, metric, currentNode))

\* the body of the while loop: sort, shift, skip a stale entry, else relax
dijkstraIteration(st, es, metric) ==
  LET sorted == sortQueue(st.queue)
      currentDist == Head(sorted)[1]
      currentNode == Head(sorted)[2]
      rest == [dist |-> st.dist, queue |-> Tail(sorted)]
  IN  IF currentDist > st.dist[currentNode] THEN rest
      ELSE relaxNeighbors(rest, currentDist, adjacencyOf(es, metric, currentNode))

NodeIds(ns) == {ns[k].id : k \in 1..Len(ns)}

\* distances: a map from id to distance * WScale (Infinity when unreached)
shortestDistances(ns, es, metric, rootId) ==
  LET init == [id \in NodeIds(ns) |-> Infinity]
  IN  IF ~adjacencyHas(es, rootId) THEN init
      ELSE LET withRoot == [id \in NodeIds(ns) \cup {rootId} |->
                              IF id = rootId THEN 0 ELSE Infinity]
           IN  dijkstraLoop([dist |-> withRoot, queue |-> << <<0, rootId>> >>],
                            es, metric)

\* ------------------------------------------------------------------------
\* app-state.ts: ForceSimulation.simulationStep and its helpers
\* ------------------------------------------------------------------------
\* a focus choice that prefers the primary focus
effectiveFocusPrimaryFirst(focusId, waveId) == IF focusId # "" THEN focusId ELSE waveId

\* this.waveFocusId || this.focusNodeId
effectiveFocus(focusId, waveId) == IF waveId # "" THEN waveId ELSE focusId

RECURSIVE getWaveNeighbors(_, _)
getWaveNeighbors(es, nodeId) ==
  IF es = <<>> THEN {}
  ELSE LET edge == Head(es)
           rest == getWaveNeighbors(Tail(es), nodeId)
       IN  IF edge.type # "wave" THEN rest
           ELSE (IF edge.source = nodeId THEN {edge.target} ELSE {})
                \cup (IF edge.target = nodeId THEN {edge.source} ELSE {})
                \cup rest

isFinite(d) == d # Infinity

RECURSIVE SetMax(_)
SetMax(S) ==
  LET x == CHOOSE v \in S : TRUE
  IN  IF S = {x} THEN x ELSE Max(x, SetMax(S \ {x}))

\* finiteDistances.length ? Math.max(...finiteDistances) : 1
maxDistanceOf(distances) ==
  LET finiteDistances == {distances[id] : id \in {i \in DOMAIN distances : isFinite(distances[i])}}
  IN  IF finiteDistances # {} THEN SetMax(finiteDistances) ELSE WScale

\* a switch whose default branch is the cross branch
baseLengthCrossDefault(type) ==
  CASE type = "lineage"   -> 110
    [] type = "cross"     -> 160
    [] type = "wave"      -> 250
    [] type = "archetype" -> 280
    [] OTHER              -> 160

\* the switch over edge.type: natural length (units) and stiffness (1e-5)
baseLength(type) ==
  CASE type = "lineage"   -> 110
    [] type = "cross"     -> 160
    [] type = "wave"      -> 250
    [] type = "archetype" -> 280
    [] OTHER              -> 140

springStrength(type) ==
  CASE type = "lineage"   -> 5000
    [] type = "cross"     -> 1000
    [] type = "wave"      -> 800
    [] type = "archetype" -> 500
    [] OTHER              -> 3000

\* a spring that pushes both endpoints the same way
springEdgeSameSign(ns, byId, edge, waveId) ==
  IF edge.source \notin DOMAIN byId \/ edge.target \notin DOMAIN byId THEN ns
  ELSE LET si == byId[edge.source]
           ti == byId[edge.target]
           dx == ns[ti].x - ns[si].x
           dy == ns[ti].y - ns[si].y
           distance == Hypot(dx, dy)
           nx == IF distance = 0 THEN 0 ELSE MulDiv(dx, U, distance)
           ny == IF distance = 0 THEN 0 ELSE MulDiv(dy, U, distance)
           strength == IF waveId # "" /\ (edge.source = waveId \/ edge.target = waveId)
                       THEN (springStrength(edge.type) * 23) \div 10
                       ELSE springStrength(edge.type)
           force == MulDiv(distance - baseLength(edge.type) * Q, strength, 100000)
           fx == MulDiv(force, nx, U)
           fy == MulDiv(force, ny, U)
           ns1 == [ns EXCEPT ![si].vx = @ + fx, ![si].vy = @ + fy]
       IN  [ns1 EXCEPT ![ti].vx = @ + fx, ![ti].vy = @ + fy]

\* one iteration of the spring loop
springEdge(ns, byId, edge, waveId) ==
  IF edge.source \notin DOMAIN byId \/ edge.target \notin DOMAIN byId THEN ns
  ELSE LET si == byId[edge.source]
           ti == byId[edge.target]
           dx == ns[ti].x - ns[si].x
           dy == ns[ti].y - ns[si].y
           distance == Hypot(dx, dy)
           \* Math.hypot(dx, dy) || 1e-6: dx = dy = 0 there, so nx = ny = 0
           nx == IF distance = 0 THEN 0 ELSE MulDiv(dx, U, distance)
           ny == IF distance = 0 THEN 0 ELSE MulDiv(dy, U, distance)
           strength == IF waveId # "" /\ (edge.source = waveId \/ edge.target = waveId)
                       THEN (springStrength(edge.type) * 23) \div 10
                       ELSE springStrength(edge.type)
           force == MulDiv(distance - baseLength(edge.type) * Q, strength, 100000)
           fx == MulDiv(force, nx, U)
           fy == MulDiv(force, ny, U)
           ns1 == [ns EXCEPT ![si].vx = @ + fx, ![si].vy = @ + fy]
       IN  [ns1 EXCEPT ![ti].vx = @ - fx, ![ti].vy = @ - fy]

RECURSIVE applySprings(_, _, _, _)
applySprings(ns, byId, es, waveId) ==
  IF es = <<>> THEN ns
  ELSE applySprings(springEdge(ns, byId, Head(es), waveId), byId, Tail(es), waveId)

\* distances.get(node.id) || Infinity: a distance of 0 is falsy
gravityDistance(distances, id) ==
  IF id \in DOMAIN distances /\ distances[id] # 0 THEN distances[id] ELSE Infinity

\* a normalisation that puts a node without finite distance at the centre
normalizedDistanceZero(distance, maxDistance) ==
  IF isFinite(distance) THEN MulDiv(distance, U, maxDistance) ELSE 0

\* distance / maxDistance if finite, else 1 (in 1/U)
normalizedDistance(distance, maxDistance) ==
  IF isFinite(distance) THEN MulDiv(distance, U, maxDistance) ELSE U

targetRadius(node, distances, maxDistance, waveId, waveNeighbors) ==
  LET r == 80 * Q + MulDiv(620 * Q,
                           normalizedDistance(gravityDistance(distances, node.id), maxDistance),
                           U)
  IN  IF waveId # "" /\ (node.id \in waveNeighbors \/ node.id = waveId)
      THEN MulDiv(r, 55, 100) ELSE r

\* one iteration of the radial gravity loop
gravityNode(node, distances, maxDistance, waveId, waveNeighbors) ==
  LET tr == targetRadius(node, distances, maxDistance, waveId, waveNeighbors)
      h == Hypot(node.x, node.y)
      \* cos and sin of atan2(y, x); atan2(0, 0) = 0
      cosA == IF h = 0 THEN U ELSE MulDiv(node.x, U, h)
      sinA == IF h = 0 THEN 0 ELSE MulDiv(node.y, U, h)
      targetX == MulDiv(tr, cosA, U)
      targetY == MulDiv(tr, sinA, U)
      gravityStrength == IF waveId # "" THEN 3 ELSE 2
  IN  [node EXCEPT !.vx = @ + MulDiv(targetX - node.x, gravityStrength, 100),
                   !.vy = @ + MulDiv(targetY - node.y, gravityStrength, 100)]

applyGravity(ns, distances, maxDistance, waveId, waveNeighbors) ==
  [k \in 1..Len(ns) |-> gravityNode(ns[k], distances, maxDistance, waveId, waveNeighbors)]

\* Pin focus nodes
pinFocus(ns, byId, focusId) ==
  IF focusId \in DOMAIN byId
  THEN [ns EXCEPT ![byId[focusId]].x = 0, ![byId[focusId]].y = 0,
                  ![byId[focusId]].vx = 0, ![byId[focusId]].vy = 0]
  ELSE ns

\* a pinning block that places the node and leaves its velocity alone
pinOnenessKeepsVelocity(ns, byId, focusId) ==
  IF "oneness" \in DOMAIN byId
  THEN [ns EXCEPT ![byId["oneness"]].x = IF focusId # "oneness" THEN -300 * Q ELSE 0,
                  ![byId["oneness"]].y = 0]
  ELSE ns

\* Special positioning for "oneness" node
pinOneness(ns, byId, focusId) ==
  IF "oneness" \in DOMAIN byId
  THEN [ns EXCEPT ![byId["oneness"]].x = IF focusId # "oneness" THEN -300 * Q ELSE 0,
                  ![byId["oneness"]].y = 0,
                  ![byId["oneness"]].vx = 0, ![byId["oneness"]].vy = 0]
  ELSE ns

\* 15 + Math.min(110, (label?.length || 0) * 3.0)
collisionRadius(node) == 15 * Q + Min(110 * Q, node.labelLen * 3 * Q)

repulsionBase(nodeA, nodeB) ==
  IF nodeA.kind \in {"archetype", "wave"} \/ nodeB.kind \in {"archetype", "wave"}
  THEN 3200 ELSE 1600

\* the body of the inner loop for the pair (i, j)
repelPair(ns, i, j) ==
  LET nodeA == ns[i]
      nodeB == ns[j]
      dx == nodeB.x - nodeA.x
      dy == nodeB.y - nodeA.y
  IN  IF dx = 0 /\ dy = 0
      THEN [ns EXCEPT ![i].vx = @ - Q \div 2, ![i].vy = @ - Q \div 2,
                      ![j].vx = @ + Q \div 2, ![j].vy = @ + Q \div 2]
      ELSE LET distanceSquared == MulDiv(dx, dx, Q) + MulDiv(dy, dy, Q)
               distance == Hypot(dx, dy)
               repulsion == DivRound(repulsionBase(nodeA, nodeB) * Q * Q,
                                     distanceSquared + 10 * Q)
               rx == DivRound(repulsion * dx, distance)
               ry == DivRound(repulsion * dy, distance)
               minDistance == collisionRadius(nodeA) + collisionRadius(nodeB)
               pushForce == MulDiv(minDistance - distance, 5, 100)
               px == IF distance < minDistance THEN DivRound(pushForce * dx, distance) ELSE 0
               py == IF distance < minDistance THEN DivRound(pushForce * dy, distance) ELSE 0
           IN  [ns EXCEPT ![i].vx = @ - rx, ![i].vy = @ - ry,
                          ![j].vx = @ + rx, ![j].vy = @ + ry,
                          ![i].x = @ - px, ![i].y = @ - py,
                          ![j].x = @ + px, ![j].y = @ + py]

\* the nested loops over i < j
RECURSIVE applyRepulsion(_, _, _)
applyRepulsion(ns, i, j) ==
  IF i > Len(ns) THEN ns
  ELSE IF j > Len(ns) THEN applyRepulsion(ns, i + 1, i + 2)
  ELSE applyRepulsion(repelPair(ns, i, j), i, j + 1)

\* Integration with damping
integrate(ns) ==
  [k \in 1..Len(ns) |->
     LET vx == MulDiv(ns[k].vx, 86, 100)
         vy == MulDiv(ns[k].vy, 86, 100)
     IN  [ns[k] EXCEPT !.vx = vx, !.vy = vy, !.x = @ + vx, !.y = @ + vy]]

\* one tick: the node buffer after simulationStep
simulationStep(ns, byId, es, focusNodeId0, waveFocusId0, metric0) ==
  LET focusId == effectiveFocus(focusNodeId0, waveFocusId0)
      distances == shortestDistances(ns, es, metric0, focusId)
      maxDistance == maxDistanceOf(distances)
      waveNeighbors == IF waveFocusId0 # "" THEN getWaveNeighbors(es, waveFocusId0) ELSE {}
      sprung == applySprings(ns, byId, es, waveFocusId0)
      pulled == applyGravity(sprung, distances, maxDistance, waveFocusId0, waveNeighbors)
      pinned == pinOneness(pinFocus(pulled, byId, focusId), byId, focusId)
      repelled == applyRepulsion(pinned, 1, 2)
  IN  integrate(repelled)

\* the same tick with what it holds after each of its parts: the distance
\* map, the target radius of each node, and the node buffer after the
\* spring loop, after the gravity loop, after the two pinning blocks and
\* after the repulsion and collision loops
simulationStages(ns, byId, es, focusNodeId0, waveFocusId0, metric0) ==
  LET focusId == effectiveFocus(focusNodeId0, waveFocusId0)
      distances == shortestDistances(ns, es, metric0, focusId)
      maxDistance == maxDistanceOf(distances)
      waveNeighbors == IF waveFocusId0 # "" THEN getWaveNeighbors(es, waveFocusId0) ELSE {}
      sprung == applySprings(ns, byId, es, waveFocusId0)
      pulled == applyGravity(sprung, distances, maxDistance, waveFocusId0, waveNeighbors)
  IN  [distances |-> distances,
       maxDistance |-> maxDistance,
       radius |-> [k \in 1..Len(ns) |->
                     targetRadius(ns[k], distances, maxDistance, waveFocusId0, waveNeighbors)],
       sprung |-> sprung,
       pulled |-> pulled,
       pinned |-> pinOneness(pinFocus(pulled, byId, focusId), byId, focusId),
       repelled |-> applyRepulsion(pinOneness(pinFocus(pulled, byId, focusId), byId, focusId),
                                   1, 2),
       out |-> simulationStep(ns, byId, es, focusNodeId0, waveFocusId0, metric0)]

\* ------------------------------------------------------------------------
\* State: the fields of one ForceSimulation, the host's frame scheduler,
\* and the history the properties refer to
\* ------------------------------------------------------------------------
VARIABLES
  nodes,        \* this.nodes: sequence of simulation nodes
  edges,        \* this.edges
  nodeById,     \* this.nodeById: id -> index of the node object in nodes
  animationId,  \* this.animationId (NullHandle for null)
  config,       \* this.config
  focusNodeId,  \* this.focusNodeId
  waveFocusId,  \* this.waveFocusId
  metric,       \* this.metric
  pending,      \* host: handles of the animate callbacks still scheduled
  nextHandle,   \* host: the handle the next requestAnimationFrame returns
  ops,          \* history: number of operations and frames so far
  ticks,        \* history: number of simulationStep executions so far
  lastOp,       \* history: the operation that produced this state
  prevOp,       \* history: the operation before lastOp
  halted,       \* history: stop()/destroy() returned, no start()/resetLayout() since
  argNodes,     \* history: the node list given to the last setData
  argFocus      \* history: the focus ids and metric last given to the simulation

simVars == <<nodes, edges, nodeById, animationId, config, focusNodeId, waveFocusId,
             metric, pending, nextHandle, ops, ticks, lastOp, prevOp, halted,
             argNodes, argFocus>>

\* State of the harness that applies shortestDistances to one input
VARIABLES
  spPc,         \* "idle", "input" (arguments chosen) or "done" (result stored)
  spNodes,      \* this.nodes of the call
  spEdges,      \* this.edges of the call
  spMetric,     \* this.metric of the call
  spRoot,       \* rootId
  spDist        \* the map returned

spVars == <<spPc, spNodes, spEdges, spMetric, spRoot, spDist>>

\* State of the harness that applies one of the other pure functions
\* (edgeWeight and passByMetric, buildActiveGraph, simulationStep) to one input
VARIABLES
  callPc,       \* "idle", or the function called with "-input" or "-done"
  callArgs,     \* the arguments of the call, a record
  callResult    \* what the call returned, a record

callVars == <<callPc, callArgs, callResult>>

\* State of the view that owns the simulation (SVGVisualization.tsx, bind)
VARIABLES
  viewPhase,    \* "none", "bound" or "released"
  loopPending   \* host: handles of the view's animationLoop callbacks scheduled

\* State of the application state object (app-state.ts, AppState) and of the
\* sidebar's toggle group that its stateChange listeners write to
VARIABLES
  appState,     \* this.state: the GraphState record
  appTransform, \* this.transform
  currentNodes, \* this.currentNodes
  currentEdges, \* this.currentEdges
  checkboxes,   \* ToggleGroup: data-toggle-id -> checked, of the checkboxes rendered
  appLast       \* history: the last call, the events it emitted in order, the
                \* number of nested AppState.setToggle calls and whether the
                \* nesting went past MaxCallDepth

appVars == <<appState, appTransform, currentNodes, currentEdges, checkboxes, appLast>>

\* the view and the application state it is bound to
viewVars == <<viewPhase, loopPending, appVars>>

vars == <<simVars, spVars, callVars, viewVars>>

\* ------------------------------------------------------------------------
\* Inputs
\* ------------------------------------------------------------------------
NodePool ==
  << MkNode("oneness", "religion", 7), MkNode("a", "religion", 5),
     MkNode("b", "wave", 40), MkNode("c", "science", 4),
     MkNode("d", "archetype", 0) >>

EdgePool ==
  << MkEdge("oneness", "a", "lineage", Absent, Absent, Absent),
     MkEdge("b", "a", "wave", 90, 40, 90),
     MkEdge("oneness", "b", "cross", 80, 70, 90),
     MkEdge("a", "c", "archetype", 60, 60, 60) >>

\* the graphs handed to setData: the first NumGraphs of the pool.  The third
\* lacks the root node and has an edge whose source is not among its nodes.
GraphPool ==
  << [nodes |-> SubSeq(NodePool, 1, 2), edges |-> SubSeq(EdgePool, 1, 1)],
     [nodes |-> SubSeq(NodePool, 1, 3), edges |-> SubSeq(EdgePool, 1, 3)],
     [nodes |-> SubSeq(NodePool, 2, 3), edges |-> SubSeq(EdgePool, 1, 2)],
     [nodes |-> <<>>, edges |-> <<>>],
     [nodes |-> SubSeq(NodePool, 2, 4), edges |-> SubSeq(EdgePool, 2, 4)],
     [nodes |-> SubSeq(NodePool, 1, 1), edges |-> <<>>] >>

Graphs == {GraphPool[k] : k \in 1..Min(NumGraphs, Len(GraphPool))}

Configs == {[width |-> 1200, height |-> 700, centerX |-> 0, centerY |-> 0],
            [width |-> 800, height |-> 600, centerX |-> 0, centerY |-> 0]}

FocusIds == {"oneness", "a"}
WaveIds == {"", "b"}
SimMetrics == {"combined", "meaning"}

\* Math.random(): the host's generator is in one of NumSeeds states when a
\* layout is drawn; the j-th call then returns mathRandom(seed, j) / 8,
\* a value in [0, 1).  Seed 0 returns 0 on every call.
RandomSeeds == 0..(NumSeeds - 1)
mathRandom(seed, j) == (seed * (3 * j + seed)) % 8

\* min + Math.random() * (max - min), with Math.random() = r / 8
randomPosition(min, max, r) == min * Q + (r * (max - min) * Q) \div 8

\* ------------------------------------------------------------------------
\* Host scheduler
\* ------------------------------------------------------------------------
\* cancelAnimationFrame(h)
cancelAnimationFrame(pend, h) == pend \ {h}

\* ------------------------------------------------------------------------
\* ForceSimulation
\* ------------------------------------------------------------------------
Running == animationId # NullHandle

\* new Map(this.nodes.map(n => [n.id, n])): a later entry replaces an earlier
indexById(ns) ==
  [id \in NodeIds(ns) |-> CHOOSE k \in 1..Len(ns) :
      ns[k].id = id /\ \A j \in (k + 1)..Len(ns) : ns[j].id # id]

\* stop() that forgets the handle without cancelling it
stopPendingNoCancel(pend, animId) == pend

\* the pending set after stop(): cancels the handle held in animationId
stopPending(pend, animId) ==
  IF animId # NullHandle THEN cancelAnimationFrame(pend, animId) ELSE pend

\* start() without the stop() of a prior loop
startPendingNoStop(pend, animId, h) == pend \cup {h}

\* the pending set after start() has stopped a prior loop and scheduled animate
startPending(pend, animId, h) ==
  (IF animId # NullHandle THEN stopPending(pend, animId) ELSE pend) \cup {h}

\* the bookkeeping common to every operation of the view
ViewHistory(op) ==
  /\ UNCHANGED <<spVars, callVars>>
  /\ ops' = ops + 1
  /\ lastOp' = op
  /\ prevOp' = lastOp

\* the bookkeeping common to every operation of the simulation
History(op) ==
  /\ ViewHistory(op)
  /\ UNCHANGED viewVars

SpIdle ==
  /\ spPc = "idle"
  /\ spNodes = <<>>
  /\ spEdges = <<>>
  /\ spMetric = "combined"
  /\ spRoot = ""
  /\ spDist = <<>>

CallIdle ==
  /\ callPc = "idle"
  /\ callArgs = <<>>
  /\ callResult = <<>>

\* no AppState constructed
AppIdle ==
  /\ appState = <<>>
  /\ appTransform = <<>>
  /\ currentNodes = <<>>
  /\ currentEdges = <<>>
  /\ checkboxes = <<>>
  /\ appLast = <<>>

ViewIdle ==
  /\ viewPhase = "none"
  /\ loopPending = {}
  /\ AppIdle

SimInit ==
  /\ nodes = <<>>
  /\ edges = <<>>
  /\ nodeById = <<>>
  /\ animationId = NullHandle
  /\ config = [width |-> 1200, height |-> 700, centerX |-> 0, centerY |-> 0]
  /\ focusNodeId = "oneness"
  /\ waveFocusId = ""
  /\ metric = "combined"
  /\ pending = {}
  /\ nextHandle = 1
  /\ ticks = 0
  /\ lastOp = "new"
  /\ prevOp = "new"
  /\ halted = FALSE
  /\ argNodes = <<>>
  /\ argFocus = [focus |-> "oneness", wave |-> "", metric |-> "combined"]
  /\ ops = 0

Init == SimInit /\ SpIdle /\ CallIdle /\ ViewIdle

\* setData() that keeps the simulation node of an id it already holds
setDataKeepsKnown ==
  /\ ops < MaxOps
  /\ \E graph \in Graphs, seed \in RandomSeeds :
    LET ins == graph.nodes
        ies == graph.edges
    IN
      /\ nodes' = [k \in 1..Len(ins) |->
                     IF ins[k].id \in DOMAIN nodeById THEN nodes[nodeById[ins[k].id]]
                     ELSE
                     [id |-> ins[k].id, kind |-> ins[k].kind, labelLen |-> ins[k].labelLen,
                      x |-> randomPosition(-150, 150, mathRandom(seed, 2 * k - 1)),
                      y |-> randomPosition(-150, 150, mathRandom(seed, 2 * k)),
                      vx |-> 0, vy |-> 0]]
      /\ edges' = ies
      /\ nodeById' = indexById(nodes')
      /\ argNodes' = ins
      /\ History("setData")
      /\ UNCHANGED <<animationId, config, focusNodeId, waveFocusId, metric, pending,
                     nextHandle, ticks, halted, argFocus>>

\* setData() that replaces the buffers and keeps the lookup it had
setDataKeepsLookup ==
  /\ ops < MaxOps
  /\ \E graph \in Graphs, seed \in RandomSeeds :
    LET ins == graph.nodes
        ies == graph.edges
    IN
      /\ nodes' = [k \in 1..Len(ins) |->
                     [id |-> ins[k].id, kind |-> ins[k].kind, labelLen |-> ins[k].labelLen,
                      x |-> randomPosition(-150, 150, mathRandom(seed, 2 * k - 1)),
                      y |-> randomPosition(-150, 150, mathRandom(seed, 2 * k)),
                      vx |-> 0, vy |-> 0]]
      /\ edges' = ies
      /\ nodeById' = nodeById
      /\ argNodes' = ins
      /\ History("setData")
      /\ UNCHANGED <<animationId, config, focusNodeId, waveFocusId, metric, pending,
                     nextHandle, ticks, halted, argFocus>>

setData ==
  /\ ops < MaxOps
  /\ \E graph \in Graphs, seed \in RandomSeeds :
    LET ins == graph.nodes
        ies == graph.edges
    IN
      /\ nodes' = [k \in 1..Len(ins) |->
                     [id |-> ins[k].id, kind |-> ins[k].kind, labelLen |-> ins[k].labelLen,
                      x |-> randomPosition(-150, 150, mathRandom(seed, 2 * k - 1)),
                      y |-> randomPosition(-150, 150, mathRandom(seed, 2 * k)),
                      vx |-> 0, vy |-> 0]]
      /\ edges' = ies
      /\ nodeById' = indexById(nodes')
      /\ argNodes' = ins
      /\ History("setData")
      /\ UNCHANGED <<animationId, config, focusNodeId, waveFocusId, metric, pending,
                     nextHandle, ticks, halted, argFocus>>

\* setFocus() that stores the primary id only
setFocusDropsWave ==
  /\ ops < MaxOps
  /\ \E nodeId \in FocusIds, waveId \in WaveIds :
    /\ focusNodeId' = nodeId
    /\ waveFocusId' = waveFocusId
    /\ argFocus' = [argFocus EXCEPT !.focus = nodeId, !.wave = waveId]
    /\ History("setFocus")
    /\ UNCHANGED <<nodes, edges, nodeById, animationId, config, metric, pending,
                   nextHandle, ticks, halted, argNodes>>

setFocus ==
  /\ ops < MaxOps
  /\ \E nodeId \in FocusIds, waveId \in WaveIds :
    /\ focusNodeId' = nodeId
    /\ waveFocusId' = waveId
    /\ argFocus' = [argFocus EXCEPT !.focus = nodeId, !.wave = waveId]
    /\ History("setFocus")
    /\ UNCHANGED <<nodes, edges, nodeById, animationId, config, metric, pending,
                   nextHandle, ticks, halted, argNodes>>

setMetric ==
  /\ ops < MaxOps
  /\ \E m \in SimMetrics :
    /\ metric' = m
    /\ argFocus' = [argFocus EXCEPT !.metric = m]
    /\ History("setMetric")
    /\ UNCHANGED <<nodes, edges, nodeById, animationId, config, focusNodeId, waveFocusId,
                   pending, nextHandle, ticks, halted, argNodes>>

updateConfig ==
  /\ ops < MaxOps
  /\ \E cfg \in Configs :
    /\ config' = cfg
    /\ History("updateConfig")
    /\ UNCHANGED <<nodes, edges, nodeById, animationId, focusNodeId, waveFocusId, metric,
                   pending, nextHandle, ticks, halted, argNodes, argFocus>>

start ==
  /\ ops < MaxOps
  /\ pending' = startPending(pending, animationId, nextHandle)
  /\ animationId' = nextHandle
  /\ nextHandle' = nextHandle + 1
  /\ halted' = FALSE
  /\ History("start")
  /\ UNCHANGED <<nodes, edges, nodeById, config, focusNodeId, waveFocusId, metric, ticks,
                 argNodes, argFocus>>

stop ==
  /\ ops < MaxOps
  /\ pending' = stopPending(pending, animationId)
  /\ animationId' = NullHandle
  /\ halted' = TRUE
  /\ History("stop")
  /\ UNCHANGED <<nodes, edges, nodeById, config, focusNodeId, waveFocusId, metric,
                 nextHandle, ticks, argNodes, argFocus>>

\* resetLayout() without the trailing start()
resetLayoutNoStart ==
  /\ ops < MaxOps
  /\ \E seed \in RandomSeeds :
       nodes' = [k \in 1..Len(nodes) |->
                   [nodes[k] EXCEPT !.x = randomPosition(-150, 150, mathRandom(seed, 2 * k - 1)),
                                    !.y = randomPosition(-150, 150, mathRandom(seed, 2 * k)),
                                    !.vx = 0, !.vy = 0]]
  /\ halted' = halted
  /\ History("resetLayout")
  /\ UNCHANGED <<edges, nodeById, animationId, pending, nextHandle, config, focusNodeId,
                 waveFocusId, metric, ticks, argNodes, argFocus>>

resetLayout ==
  /\ ops < MaxOps
  /\ \E seed \in RandomSeeds :
       nodes' = [k \in 1..Len(nodes) |->
                   [nodes[k] EXCEPT !.x = randomPosition(-150, 150, mathRandom(seed, 2 * k - 1)),
                                    !.y = randomPosition(-150, 150, mathRandom(seed, 2 * k)),
                                    !.vx = 0, !.vy = 0]]
  /\ pending' = startPending(pending, animationId, nextHandle)
  /\ animationId' = nextHandle
  /\ nextHandle' = nextHandle + 1
  /\ halted' = FALSE
  /\ History("resetLayout")
  /\ UNCHANGED <<edges, nodeById, config, focusNodeId, waveFocusId, metric, ticks, argNodes, argFocus>>

\* destroy() without nodeById.clear()
destroyKeepsLookup ==
  /\ ops < MaxOps
  /\ pending' = stopPending(pending, animationId)
  /\ animationId' = NullHandle
  /\ nodes' = <<>>
  /\ edges' = <<>>
  /\ nodeById' = nodeById
  /\ halted' = TRUE
  /\ History("destroy")
  /\ UNCHANGED <<config, focusNodeId, waveFocusId, metric, nextHandle, ticks, argNodes,
                 argFocus>>

destroy ==
  /\ ops < MaxOps
  /\ pending' = stopPending(pending, animationId)
  /\ animationId' = NullHandle
  /\ nodes' = <<>>
  /\ edges' = <<>>
  /\ nodeById' = <<>>
  /\ halted' = TRUE
  /\ History("destroy")
  /\ UNCHANGED <<config, focusNodeId, waveFocusId, metric, nextHandle, ticks, argNodes, argFocus>>

\* an animate closure that runs the step but requests no further frame
animateOnce(st) ==
  [nodes |-> simulationStep(st.nodes, nodeById, edges, focusNodeId, waveFocusId, metric),
   animationId |-> st.animationId,
   pending |-> st.pending,
   nextHandle |-> st.nextHandle,
   ticks |-> st.ticks + 1]

\* the animate closure of start(), run by the host for one handle: it runs
\* simulationStep and requests the next frame; st holds what a callback changes
animate(st) ==
  [nodes |-> simulationStep(st.nodes, nodeById, edges, focusNodeId, waveFocusId, metric),
   animationId |-> st.nextHandle,
   pending |-> st.pending \cup {st.nextHandle},
   nextHandle |-> st.nextHandle + 1,
   ticks |-> st.ticks + 1]

SetMin(S) == CHOOSE x \in S : \A y \in S : x <= y

\* the host runs the callbacks scheduled before the frame, in the order they
\* were requested, skipping any that has been cancelled meanwhile
RECURSIVE runCallbacks(_, _)
runCallbacks(st, fired) ==
  IF fired = {} THEN st
  ELSE LET h == SetMin(fired)
       IN  IF h \in st.pending
           THEN runCallbacks(animate([st EXCEPT !.pending = @ \ {h}]), fired \ {h})
           ELSE runCallbacks(st, fired \ {h})

\* One frame of the host in which at least one callback of the simulation is due
frame ==
  LET st == runCallbacks([nodes |-> nodes, animationId |-> animationId,
                          pending |-> pending, nextHandle |-> nextHandle,
                          ticks |-> ticks], pending)
  IN  /\ ops < MaxOps
      /\ pending # {}
      /\ nodes' = st.nodes
      /\ animationId' = st.animationId
      /\ pending' = st.pending
      /\ nextHandle' = st.nextHandle
      /\ ticks' = st.ticks
      /\ History("frame")
      /\ UNCHANGED <<edges, nodeById, config, focusNodeId, waveFocusId, metric, halted,
                     argNodes, argFocus>>

Next ==
  \/ setData
  \/ setFocus
  \/ setMetric
  \/ updateConfig
  \/ start
  \/ stop
  \/ resetLayout
  \/ destroy
  \/ frame

Spec == Init /\ [][Next]_vars

\* ------------------------------------------------------------------------
\* SVGVisualization.tsx: the view that owns the simulation (bind)
\* ------------------------------------------------------------------------
\* new SimulationNode objects for a node list, as setData builds them
simulationNodes(ins, seed) ==
  [k \in 1..Len(ins) |->
     [id |-> ins[k].id, kind |-> ins[k].kind, labelLen |-> ins[k].labelLen,
      x |-> randomPosition(-150, 150, mathRandom(seed, 2 * k - 1)),
      y |-> randomPosition(-150, 150, mathRandom(seed, 2 * k)),
      vx |-> 0, vy |-> 0]]

\* the state after bind(): the simulation is constructed, updateGraph has
\* loaded props.nodes and props.edges and started the simulation (handle 1),
\* and the view's animationLoop is requested (handle 2).  props.state is the
\* default state; argFocus is the closure variable currentState.
InitView ==
  /\ SpIdle
  /\ CallIdle
  /\ AppIdle
  /\ \E graph \in Graphs, seed \in RandomSeeds :
       /\ nodes = simulationNodes(graph.nodes, seed)
       /\ edges = graph.edges
       /\ nodeById = indexById(nodes)
       /\ argNodes = graph.nodes
  /\ config = [width |-> 1200, height |-> 700, centerX |-> 0, centerY |-> 0]
  /\ focusNodeId = "oneness"
  /\ waveFocusId = ""
  /\ metric = "combined"
  /\ argFocus = [focus |-> "oneness", wave |-> "", metric |-> "combined"]
  /\ animationId = 1
  /\ pending = {1}
  /\ loopPending = {2}
  /\ nextHandle = 3
  /\ viewPhase = "bound"
  /\ ticks = 0
  /\ ops = 0
  /\ lastOp = "bind"
  /\ prevOp = "bind"
  /\ halted = FALSE

\* updateGraph(nodes, edges): stop, setData, setFocus and setMetric from
\* currentState, start
viewUpdateGraph ==
  /\ ops < MaxViewOps
  /\ viewPhase = "bound"
  /\ \E graph \in Graphs, seed \in RandomSeeds :
       /\ nodes' = simulationNodes(graph.nodes, seed)
       /\ edges' = graph.edges
       /\ nodeById' = indexById(nodes')
       /\ argNodes' = graph.nodes
  /\ focusNodeId' = argFocus.focus
  /\ waveFocusId' = argFocus.wave
  /\ metric' = argFocus.metric
  /\ pending' = startPending(stopPending(pending, animationId), NullHandle, nextHandle)
  /\ animationId' = nextHandle
  /\ nextHandle' = nextHandle + 1
  /\ halted' = FALSE
  /\ ViewHistory("updateGraph")
  /\ UNCHANGED <<config, ticks, argFocus, viewVars>>

\* updateState(state): currentState = state, setFocus, setMetric
viewUpdateState ==
  /\ ops < MaxViewOps
  /\ viewPhase = "bound"
  /\ \E nodeId \in FocusIds, waveId \in WaveIds, m \in SimMetrics :
       /\ argFocus' = [focus |-> nodeId, wave |-> waveId, metric |-> m]
       /\ focusNodeId' = nodeId
       /\ waveFocusId' = waveId
       /\ metric' = m
  /\ ViewHistory("updateState")
  /\ UNCHANGED <<nodes, edges, nodeById, animationId, config, pending, nextHandle, ticks,
                 halted, argNodes, viewVars>>

\* updateDimensions(width, height): simulation.updateConfig
viewUpdateDimensions ==
  /\ ops < MaxViewOps
  /\ viewPhase = "bound"
  /\ \E cfg \in Configs : config' = cfg
  /\ ViewHistory("updateDimensions")
  /\ UNCHANGED <<nodes, edges, nodeById, animationId, focusNodeId, waveFocusId, metric,
                 pending, nextHandle, ticks, halted, argNodes, argFocus, viewVars>>

\* resetLayout(): simulation.resetLayout
viewResetLayout ==
  /\ ops < MaxViewOps
  /\ viewPhase = "bound"
  /\ \E seed \in RandomSeeds :
       nodes' = [k \in 1..Len(nodes) |->
                   [nodes[k] EXCEPT !.x = randomPosition(-150, 150, mathRandom(seed, 2 * k - 1)),
                                    !.y = randomPosition(-150, 150, mathRandom(seed, 2 * k)),
                                    !.vx = 0, !.vy = 0]]
  /\ pending' = startPending(pending, animationId, nextHandle)
  /\ animationId' = nextHandle
  /\ nextHandle' = nextHandle + 1
  /\ halted' = FALSE
  /\ ViewHistory("resetLayout")
  /\ UNCHANGED <<edges, nodeById, config, focusNodeId, waveFocusId, metric, ticks, argNodes,
                 argFocus, viewVars>>

\* a release that removes the listeners but leaves the simulation alone
viewReleaseKeepsSimulation ==
  /\ ops < MaxViewOps
  /\ viewPhase = "bound"
  /\ viewPhase' = "released"
  /\ halted' = TRUE
  /\ ViewHistory("release")
  /\ UNCHANGED <<nodes, edges, nodeById, animationId, pending, config, focusNodeId,
                 waveFocusId, metric, nextHandle, ticks, argNodes, argFocus, loopPending,
                 appVars>>

\* release(): simulation.destroy(), then the listeners are removed; the
\* view's own animationLoop request is left with the host
viewRelease ==
  /\ ops < MaxViewOps
  /\ viewPhase = "bound"
  /\ viewPhase' = "released"
  /\ pending' = stopPending(pending, animationId)
  /\ animationId' = NullHandle
  /\ nodes' = <<>>
  /\ edges' = <<>>
  /\ nodeById' = <<>>
  /\ halted' = TRUE
  /\ ViewHistory("release")
  /\ UNCHANGED <<config, focusNodeId, waveFocusId, metric, nextHandle, ticks, argNodes,
                 argFocus, loopPending, appVars>>

\* the host runs the callbacks scheduled before the frame in the order they
\* were requested: animate of the simulation, animationLoop of the view
\* (which reads the nodes, moves the elements and requests the next frame)
RECURSIVE runViewCallbacks(_, _, _)
runViewCallbacks(st, loop, fired) ==
  IF fired = {} THEN [st |-> st, loop |-> loop]
  ELSE LET h == SetMin(fired)
       IN  IF h \in st.pending
           THEN runViewCallbacks(animate([st EXCEPT !.pending = @ \ {h}]), loop, fired \ {h})
           ELSE IF h \in loop
           THEN runViewCallbacks([st EXCEPT !.nextHandle = @ + 1],
                                 (loop \ {h}) \cup {st.nextHandle}, fired \ {h})
           ELSE runViewCallbacks(st, loop, fired \ {h})

\* one frame of the host
viewFrame ==
  LET run == runViewCallbacks([nodes |-> nodes, animationId |-> animationId,
                               pending |-> pending, nextHandle |-> nextHandle,
                               ticks |-> ticks], loopPending, pending \cup loopPending)
  IN  /\ ops < MaxViewOps
      /\ pending \cup loopPending # {}
      /\ nodes' = run.st.nodes
      /\ animationId' = run.st.animationId
      /\ pending' = run.st.pending
      /\ nextHandle' = run.st.nextHandle
      /\ ticks' = run.st.ticks
      /\ loopPending' = run.loop
      /\ ViewHistory("frame")
      /\ UNCHANGED <<edges, nodeById, config, focusNodeId, waveFocusId, metric, halted,
                     argNodes, argFocus, viewPhase, appVars>>

NextView ==
  \/ viewUpdateGraph
  \/ viewUpdateState
  \/ viewUpdateDimensions
  \/ viewResetLayout
  \/ viewRelease
  \/ viewFrame

SpecView == InitView /\ [][NextView]_vars

\* ------------------------------------------------------------------------
\* shortestDistances applied to bounded inputs
\* ------------------------------------------------------------------------
PathSize == Min(MaxPathNodes, Len(NodePool))

PathIds == {NodePool[k].id : k \in 1..PathSize}

PathNodeLists == {SubSeq(NodePool, 1, n) : n \in 1..PathSize}

\* the pairs of pool nodes, those among the first n nodes first
PathPairPool ==
  << <<1, 2>>, <<1, 3>>, <<2, 3>>, <<1, 4>>, <<2, 4>>, <<3, 4>>,
     <<1, 5>>, <<2, 5>>, <<3, 5>>, <<4, 5>> >>

PathPairs == SubSeq(PathPairPool, 1, (PathSize * (PathSize - 1)) \div 2)

PathEdgeKinds == {"none", "lineage", "cross"}

PathExtras == {"none", "loop", "parallel"}

\* the edge of a pair: a lineage edge without scores or a cross edge with
\* scores 0 / 0 / 100, its orientation alternating from pair to pair
pathEdge(pr, kind) ==
  LET s == IF (pr[1] + pr[2]) % 2 = 1 THEN pr[1] ELSE pr[2]
      t == IF (pr[1] + pr[2]) % 2 = 1 THEN pr[2] ELSE pr[1]
  IN  IF kind = "lineage"
      THEN MkEdge(NodePool[s].id, NodePool[t].id, "lineage", Absent, Absent, Absent)
      ELSE MkEdge(NodePool[s].id, NodePool[t].id, "cross", 0, 0, 100)

RECURSIVE pathEdges(_, _)
pathEdges(choice, k) ==
  IF k > Len(PathPairs) THEN <<>>
  ELSE (IF choice[k] = "none" THEN <<>> ELSE <<pathEdge(PathPairs[k], choice[k])>>)
       \o pathEdges(choice, k + 1)

\* an edge list: at most one edge per pair of pool nodes, and possibly a
\* second edge between the first two nodes ahead of it or a self-loop on the
\* first node behind it
PathEdgeLists ==
  {(IF extra = "parallel"
      THEN <<MkEdge(NodePool[2].id, NodePool[1].id, "cross", 0, 0, 100)>> ELSE <<>>)
   \o pathEdges(choice, 1) \o
   (IF extra = "loop"
      THEN <<MkEdge(NodePool[1].id, NodePool[1].id, "cross", 0, 0, 100)>> ELSE <<>>) :
     choice \in [1..Len(PathPairs) -> PathEdgeKinds], extra \in PathExtras}

PathMetrics == {"meaning", "chronology"}

InitSP ==
  /\ SimInit
  /\ CallIdle
  /\ ViewIdle
  /\ spPc = "input"
  /\ spNodes \in PathNodeLists
  /\ spEdges \in PathEdgeLists
  /\ spMetric \in PathMetrics
  /\ spRoot \in PathIds
  /\ spDist = <<>>

computeDistances ==
  /\ spPc = "input"
  /\ spDist' = shortestDistances(spNodes, spEdges, spMetric, spRoot)
  /\ spPc' = "done"
  /\ UNCHANGED <<spNodes, spEdges, spMetric, spRoot>>
  /\ UNCHANGED <<simVars, callVars, viewVars>>

NextSP == computeDistances

SpecSP == InitSP /\ [][NextSP]_vars

\* ------------------------------------------------------------------------
\* shortestDistances run one iteration of its while loop at a time
\* ------------------------------------------------------------------------
InitDijkstra ==
  /\ SimInit
  /\ SpIdle
  /\ ViewIdle
  /\ CallIdle

\* a call of shortestDistances(rootId) on some node list, edge list and metric
dijkstraCall ==
  /\ callPc = "idle"
  /\ \E ns \in PathNodeLists, es \in PathEdgeLists, m \in PathMetrics, r \in PathIds :
       callArgs' = [nodes |-> ns, edges |-> es, metric |-> m, rootId |-> r]
  /\ callPc' = "dijkstra-input"
  /\ UNCHANGED <<callResult, simVars, spVars, viewVars>>

\* the function up to the while loop: the initial map, the early return for
\* a root without adjacency entry, the root's distance and the first queue
dijkstraBegin ==
  /\ callPc = "dijkstra-input"
  /\ IF ~adjacencyHas(callArgs.edges, callArgs.rootId)
     THEN /\ callResult' = [dist |-> [id \in NodeIds(callArgs.nodes) |-> Infinity],
                            queue |-> <<>>, passes |-> 0, skipped |-> FALSE]
          /\ callPc' = "dijkstra-done"
     ELSE /\ callResult' = [dist |-> [id \in NodeIds(callArgs.nodes) \cup {callArgs.rootId} |->
                                       IF id = callArgs.rootId THEN 0 ELSE Infinity],
                            queue |-> << <<0, callArgs.rootId>> >>, passes |-> 0, skipped |-> FALSE]
          /\ callPc' = "dijkstra-loop"
  /\ UNCHANGED <<callArgs, simVars, spVars, viewVars>>

\* one pass through the while loop; passes counts the passes and skipped
\* records that some pass took the continue branch
dijkstraIterate ==
  /\ callPc = "dijkstra-loop"
  /\ callResult.queue # <<>>
  /\ LET st == dijkstraIteration([dist |-> callResult.dist, queue |-> callResult.queue],
                                 callArgs.edges, callArgs.metric)
         stale == sortQueue(callResult.queue)[1][1]
                    > callResult.dist[sortQueue(callResult.queue)[1][2]]
     IN  callResult' = [dist |-> st.dist, queue |-> st.queue,
                        passes |-> callResult.passes + 1,
                        skipped |-> callResult.skipped \/ stale]
  /\ UNCHANGED <<callPc, callArgs, simVars, spVars, viewVars>>

\* the loop condition fails: return distances
dijkstraReturn ==
  /\ callPc = "dijkstra-loop"
  /\ callResult.queue = <<>>
  /\ callPc' = "dijkstra-done"
  /\ UNCHANGED <<callResult, callArgs, simVars, spVars, viewVars>>

NextDijkstra == dijkstraCall \/ dijkstraBegin \/ dijkstraIterate \/ dijkstraReturn

SpecDijkstra == InitDijkstra /\ [][NextDijkstra]_vars

\* ------------------------------------------------------------------------
\* edgeWeight, passByMetric and the spring constants applied to bounded inputs
\* ------------------------------------------------------------------------
\* scores an edge can carry: the first NumScores of the pool, or none
ScorePool == <<0, 100, 43, 81, 52, 65, 50, 85, 64, 49, 84, 60>>

Scores == {ScorePool[k] : k \in 1..Min(NumScores, Len(ScorePool))}

OptionalScores == Scores \cup {Absent}

\* the edge types of the data, and one the spring switch does not list
EdgeTypes == {"lineage", "cross", "wave", "archetype", "resonance"}

\* the metrics of MetricType, and one no switch lists
EdgeMetrics == {"combined", "meaning", "influence", "chronology", "unknown"}

InitEdge ==
  /\ SimInit
  /\ SpIdle
  /\ ViewIdle
  /\ callPc = "edge-input"
  /\ callArgs \in [edge : {MkEdge("a", "b", ty, m, i, c) :
                             ty \in EdgeTypes, m \in OptionalScores,
                             i \in OptionalScores, c \in OptionalScores},
                   metric : EdgeMetrics]
  /\ callResult = <<>>

\* edgeWeight(edge, metric), passByMetric(meaning, influence, chronology,
\* metric) and the spring constants the tick selects for the edge's type
evaluateEdge ==
  /\ callPc = "edge-input"
  /\ callResult' =
       [weight |-> edgeWeight(callArgs.edge, callArgs.metric),
        pass |-> passByMetric(callArgs.edge.meaning, callArgs.edge.influence,
                              callArgs.edge.chronology, callArgs.metric),
        baseLength |-> baseLength(callArgs.edge.type),
        springStrength |-> springStrength(callArgs.edge.type)]
  /\ callPc' = "edge-done"
  /\ UNCHANGED <<callArgs, simVars, spVars, viewVars>>

NextEdge == evaluateEdge

SpecEdge == InitEdge /\ [][NextEdge]_vars

\* ------------------------------------------------------------------------
\* buildActiveGraph applied to a data set and bounded filter states
\* ------------------------------------------------------------------------
\* nodes.json, lineage-edges.json, resonance-edges.json, wave-edges.json: a
\* data set with every kind of node, layers 0 to 3, and in each edge file an
\* edge whose endpoint is on a deeper layer or is no node at all
DataSet ==
  [nodes |-> << MkDataNode("oneness", "religion", 0, "root"),
                MkDataNode("a", "religion", 1, "east"),
                MkDataNode("b", "wave", 5, "waves"),
                MkDataNode("c", "science", 1, "science"),
                MkDataNode("d", "archetype", ArchetypesLayer, "archetypes"),
                MkDataNode("p", "philosophy", 2, "philosophy"),
                MkDataNode("q", "religion", 3, "east") >>,
   lineageEdges |-> << MkEdge("oneness", "a", "lineage", Absent, Absent, Absent),
                       MkEdge("a", "q", "lineage", Absent, Absent, Absent),
                       MkEdge("a", "ghost", "lineage", Absent, Absent, Absent) >>,
   resonanceEdges |-> << MkEdge("a", "c", "cross", 81, 81, 100),
                         MkEdge("c", "p", "cross", 65, 43, 85),
                         MkEdge("d", "a", "archetype", 100, 100, Absent),
                         MkEdge("q", "c", "cross", 100, 100, 100) >>,
   waveEdges |-> << MkEdge("b", "a", "wave", 100, 52, 100),
                    MkEdge("b", "q", "wave", 100, 52, 100),
                    MkEdge("b", "d", "wave", Absent, Absent, Absent) >>]

\* the filter states: every combination of the toggles, layer caps 0 to
\* MaxLayer, the group east switched off or not, and every metric
GraphStates ==
  [layerCap : 0..MaxLayer,
   showReligions : BOOLEAN, showScience : BOOLEAN, showResonances : BOOLEAN,
   showWaves : BOOLEAN, showArchetypes : BOOLEAN, showPhilosophy : BOOLEAN,
   religionsOff : {{}, {"east"}},
   metric : EdgeMetrics]

InitGraph ==
  /\ SimInit
  /\ SpIdle
  /\ ViewIdle
  /\ callPc = "graph-input"
  /\ callArgs \in GraphStates
  /\ callResult = <<>>

callBuildActiveGraph ==
  /\ callPc = "graph-input"
  /\ callResult' = buildActiveGraph(DataSet, callArgs)
  /\ callPc' = "graph-done"
  /\ UNCHANGED <<callArgs, simVars, spVars, viewVars>>

NextGraph == callBuildActiveGraph

SpecGraph == InitGraph /\ [][NextGraph]_vars

\* ------------------------------------------------------------------------
\* app-state.ts: AppState, with the stateChange listeners of FractalWebApp,
\* Sidebar.updateState and ToggleGroup.setToggle
\* ------------------------------------------------------------------------
\* An operation works on app = [state, transform, nodes, edges, checkboxes,
\* emitted, nested, overflow]: the fields of the AppState, the checkboxes of
\* the sidebar's toggle group, the events emitted so far by the operation,
\* the number of AppState.setToggle calls made from inside a listener, and
\* whether such calls nested deeper than MaxCallDepth.

\* a boolean as the value a listener passes on
JsBool(b) == IF b THEN "true" ELSE "false"

\* the switch of setToggle: the state field of a toggle id, "" for an id
\* that is no case of the switch
toggleField(toggleId) ==
  CASE toggleId = "religions"  -> "showReligions"
    [] toggleId = "science"    -> "showScience"
    [] toggleId = "resonances" -> "showResonances"
    [] toggleId = "waves"      -> "showWaves"
    [] toggleId = "archetypes" -> "showArchetypes"
    [] toggleId = "philosophy" -> "showPhilosophy"
    [] OTHER                   -> ""

\* the toggle ids Sidebar.updateState writes, in its order
SidebarToggles ==
  << "religions", "science", "resonances", "waves", "archetypes", "metaphysics" >>

\* the value Sidebar.updateState reads for a toggle id: state.showReligions,
\* ..., state.showArchetypes, and state.showMetaphysics, which is no field
\* of the state
sidebarValue(st, toggleId) ==
  IF toggleId = "metaphysics" THEN "undefined" ELSE JsBool(st[toggleField(toggleId)])

\* updateGraph(): rebuild the graph from the state and emit graphChange
\* an updateGraph() that takes the nodes and leaves the edges as they are
graphKeepsEdges(app, graph) ==
  [app EXCEPT !.nodes = graph.nodes, !.emitted = Append(@, "graphChange")]

\* updateGraph(), given the graph buildActiveGraph returns
graphUpdated(app, graph) ==
  [app EXCEPT !.nodes = graph.nodes, !.edges = graph.edges,
              !.emitted = Append(@, "graphChange")]

appUpdateGraph(app) == graphUpdated(app, buildActiveGraph(DataSet, app.state))

RECURSIVE appSetToggle(_, _, _, _)

\* ToggleGroup.setToggle: set the checkbox, if there is one, and emit
\* change, whose handler calls AppState.setToggle
toggleGroupSetToggle(app, toggleId, checked, depth) ==
  IF toggleId \notin DOMAIN app.checkboxes THEN app
  ELSE appSetToggle([app EXCEPT !.checkboxes[toggleId] = (checked = "true")],
                    toggleId, checked, depth + 1)

\* Sidebar.updateState(state): the toggles from the k-th on
RECURSIVE sidebarUpdateState(_, _, _, _)
sidebarUpdateState(app, st, k, depth) ==
  IF k > Len(SidebarToggles) THEN app
  ELSE sidebarUpdateState(toggleGroupSetToggle(app, SidebarToggles[k],
                                               sidebarValue(st, SidebarToggles[k]), depth),
                          st, k + 1, depth)

\* the two stateChange listeners of FractalWebApp, each of which hands the
\* emitted state to Sidebar.updateState
stateChangeListeners(app, st, depth) ==
  sidebarUpdateState(sidebarUpdateState(app, st, 1, depth), st, 1, depth)

\* emitStateChange(): emit stateChange with a copy of the state
emitStateChange(app, depth) ==
  stateChangeListeners([app EXCEPT !.emitted = Append(@, "stateChange")], app.state, depth)

\* setToggle() that emits and rebuilds whether or not the value changed
appSetToggleAlways(app, toggleId, checked, depth) ==
  IF depth > MaxCallDepth THEN [app EXCEPT !.overflow = TRUE]
  ELSE IF toggleField(toggleId) = "" THEN [app EXCEPT !.nested = @ + (IF depth > 0 THEN 1 ELSE 0)]
  ELSE appUpdateGraph(emitStateChange(
         [app EXCEPT !.nested = @ + (IF depth > 0 THEN 1 ELSE 0),
                     !.state[toggleField(toggleId)] = (checked = "true")], depth))

\* setToggle(toggleId, checked)
appSetToggle(app, toggleId, checked, depth) ==
  IF depth > MaxCallDepth THEN [app EXCEPT !.overflow = TRUE]
  ELSE IF toggleField(toggleId) # ""
          /\ JsBool(app.state[toggleField(toggleId)]) # checked
  THEN appUpdateGraph(emitStateChange(
         [app EXCEPT !.nested = @ + (IF depth > 0 THEN 1 ELSE 0),
                     !.state[toggleField(toggleId)] = (checked = "true")], depth))
  ELSE [app EXCEPT !.nested = @ + (IF depth > 0 THEN 1 ELSE 0)]

\* setSearchQuery(query)
appSetSearchQuery(app, query) ==
  IF app.state.searchQuery # query
  THEN [emitStateChange([app EXCEPT !.state.searchQuery = query], 0)
          EXCEPT !.emitted = Append(@, "searchChange")]
  ELSE app

\* setPerspective(perspective)
appSetPerspective(app, perspective) ==
  IF app.state.perspective # perspective
  THEN appUpdateGraph(emitStateChange([app EXCEPT !.state.perspective = perspective], 0))
  ELSE app

\* setWavePerspective(wavePerspective)
appSetWavePerspective(app, wavePerspective) ==
  IF app.state.wavePerspective # wavePerspective
  THEN appUpdateGraph(emitStateChange([app EXCEPT !.state.wavePerspective = wavePerspective], 0))
  ELSE app

\* a setLayerCap() without the comparison with the value held
appSetLayerCapAlways(app, layerCap) ==
  appUpdateGraph(emitStateChange([app EXCEPT !.state.layerCap = layerCap], 0))

\* setLayerCap(layerCap)
appSetLayerCap(app, layerCap) ==
  IF app.state.layerCap # layerCap
  THEN appUpdateGraph(emitStateChange([app EXCEPT !.state.layerCap = layerCap], 0))
  ELSE app

\* setMetric(metric)
appSetMetric(app, m) ==
  IF app.state.metric # m
  THEN appUpdateGraph(emitStateChange([app EXCEPT !.state.metric = m], 0))
  ELSE app

\* setTransform(transform)
appSetTransform(app, transform) ==
  [app EXCEPT !.transform = transform, !.emitted = Append(@, "transformChange")]

\* updateState(updates): updates is a record of some of the state's fields
appUpdateState(app, updates) ==
  IF \E key \in DOMAIN updates : app.state[key] # updates[key]
  THEN appUpdateGraph(emitStateChange(
         [app EXCEPT !.state = [key \in DOMAIN app.state |->
                                  IF key \in DOMAIN updates THEN updates[key]
                                  ELSE app.state[key]]], 0))
  ELSE app

\* the values the sidebar and the application hand to the setters
Perspectives == {"oneness", "a"}
WavePerspectives == {"", "b"}
LayerCaps == 0..MaxLayer
AppMetrics == {"combined", "influence"}
SearchQueries == {"", "zen"}
ToggleIds == {"religions", "science", "resonances", "waves", "archetypes", "philosophy",
              "metaphysics"}
Transforms == {[x |-> 0, y |-> 0, k |-> 1], [x |-> 10, y |-> -5, k |-> 2]}
StateUpdates ==
  {[metric |-> "influence", layerCap |-> 0], [showWaves |-> FALSE],
   [searchQuery |-> "zen"], [perspective |-> "a", showScience |-> TRUE]}

\* the default state of the constructor, with the fields an initialState
\* argument sets
defaultState(layerCap, showScience, showWaves) ==
  [layerCap |-> layerCap, showReligions |-> TRUE, showScience |-> showScience,
   showResonances |-> TRUE, showWaves |-> showWaves, showArchetypes |-> TRUE,
   showPhilosophy |-> TRUE, religionsOff |-> {}, perspective |-> "oneness",
   wavePerspective |-> "", metric |-> "combined", searchQuery |-> ""]

\* the toggle items the sidebar renders from a state
toggleItems(st) ==
  [id \in {"science", "resonances", "waves", "archetypes", "metaphysics"} |->
     IF id = "metaphysics" THEN FALSE ELSE st[toggleField(id)]]

\* the state after new AppState(initialState) and the first render of the
\* sidebar: the constructor has built the graph before any listener was
\* registered; appLast records the last call, what it emitted, and the
\* number of calls made so far
InitApp ==
  /\ SimInit
  /\ SpIdle
  /\ CallIdle
  /\ viewPhase = "none"
  /\ loopPending = {}
  /\ \E showScience \in BOOLEAN, showWaves \in BOOLEAN :
       appState = defaultState(MaxLayer, showScience, showWaves)
  /\ appTransform = [x |-> 0, y |-> 0, k |-> 1]
  /\ currentNodes = buildActiveGraph(DataSet, appState).nodes
  /\ currentEdges = buildActiveGraph(DataSet, appState).edges
  /\ checkboxes = toggleItems(appState)
  /\ appLast = [call |-> [op |-> "new"], emitted |-> <<>>, nested |-> 0, overflow |-> FALSE,
                calls |-> 0]

\* the application state as an operation finds it
appNow ==
  [state |-> appState, transform |-> appTransform, nodes |-> currentNodes,
   edges |-> currentEdges, checkboxes |-> checkboxes, emitted |-> <<>>, nested |-> 0,
   overflow |-> FALSE]

\* the operation call has run and left app
appReturn(call, app) ==
  /\ appLast.calls < MaxCalls
  /\ appState' = app.state
  /\ appTransform' = app.transform
  /\ currentNodes' = app.nodes
  /\ currentEdges' = app.edges
  /\ checkboxes' = app.checkboxes
  /\ appLast' = [call |-> call, emitted |-> app.emitted, nested |-> app.nested,
                 overflow |-> app.overflow, calls |-> appLast.calls + 1]
  /\ UNCHANGED <<simVars, spVars, callVars, viewPhase, loopPending>>

callSetSearchQuery ==
  \E query \in SearchQueries :
    appReturn([op |-> "setSearchQuery", value |-> query], appSetSearchQuery(appNow, query))

callSetPerspective ==
  \E perspective \in Perspectives :
    appReturn([op |-> "setPerspective", value |-> perspective],
              appSetPerspective(appNow, perspective))

callSetWavePerspective ==
  \E wavePerspective \in WavePerspectives :
    appReturn([op |-> "setWavePerspective", value |-> wavePerspective],
              appSetWavePerspective(appNow, wavePerspective))

callSetLayerCap ==
  \E layerCap \in LayerCaps :
    appReturn([op |-> "setLayerCap", value |-> layerCap], appSetLayerCap(appNow, layerCap))

callSetMetric ==
  \E m \in AppMetrics :
    appReturn([op |-> "setMetric", value |-> m], appSetMetric(appNow, m))

\* a click on a checkbox of the toggle group or a direct call
callSetToggle ==
  \E toggleId \in ToggleIds, checked \in BOOLEAN :
    appReturn([op |-> "setToggle", toggleId |-> toggleId, value |-> checked],
              appSetToggle([appNow EXCEPT !.checkboxes =
                              [id \in DOMAIN checkboxes |->
                                 IF id = toggleId THEN checked ELSE checkboxes[id]]],
                           toggleId, JsBool(checked), 0))

callSetTransform ==
  \E transform \in Transforms :
    appReturn([op |-> "setTransform", value |-> transform], appSetTransform(appNow, transform))

callUpdateState ==
  \E updates \in StateUpdates :
    appReturn([op |-> "updateState", value |-> updates], appUpdateState(appNow, updates))

NextApp ==
  \/ callSetSearchQuery
  \/ callSetPerspective
  \/ callSetWavePerspective
  \/ callSetLayerCap
  \/ callSetMetric
  \/ callSetToggle
  \/ callSetTransform
  \/ callUpdateState

SpecApp == InitApp /\ [][NextApp]_vars

\* ------------------------------------------------------------------------
\* simulationStep applied to bounded inputs
\* ------------------------------------------------------------------------
\* the graphs a tick runs on: the first NumGraphs of the pool.  They hold a
\* node without edge, edges to ids that are no node, a node that only
\* edges through such an id connect to the rest, and an edge from a node to
\* itself.
StepGraphPool ==
  << [nodes |-> SubSeq(NodePool, 1, 4),
      edges |-> << EdgePool[1], EdgePool[2] >>],
     [nodes |-> SubSeq(NodePool, 2, 5),
      edges |-> << MkEdge("a", "b", "wave", 0, 0, 0),
                   MkEdge("a", "ghost", "cross", 100, 100, 100),
                   MkEdge("ghost", "d", "cross", 100, 100, 100) >>],
     [nodes |-> SubSeq(NodePool, 1, 3),
      edges |-> SubSeq(EdgePool, 1, 3) \o << MkEdge("a", "a", "cross", 50, 50, 50) >>],
     [nodes |-> SubSeq(NodePool, 2, 4),
      edges |-> << EdgePool[2], EdgePool[4], EdgePool[3],
                   MkEdge("ghost", "spirit", "resonance", Absent, Absent, Absent) >>],
     [nodes |-> SubSeq(NodePool, 1, 5),
      edges |-> EdgePool],
     [nodes |-> SubSeq(NodePool, 3, 3),
      edges |-> <<>>] >>

StepGraphs == {StepGraphPool[k] : k \in 1..Min(NumGraphs, Len(StepGraphPool))}

StepFocusIds == {"oneness", "a", "c"}

\* the node buffer a tick starts from: positions as setData or resetLayout
\* draws them, at rest; with atOrigin the second node sits at the origin
stepNodes(ins, seed, atOrigin) ==
  [k \in 1..Len(ins) |->
     [id |-> ins[k].id, kind |-> ins[k].kind, labelLen |-> ins[k].labelLen,
      x |-> IF atOrigin /\ k = 2 THEN 0
            ELSE randomPosition(-150, 150, mathRandom(seed, 2 * k - 1)),
      y |-> IF atOrigin /\ k = 2 THEN 0
            ELSE randomPosition(-150, 150, mathRandom(seed, 2 * k)),
      vx |-> 0, vy |-> 0]]

InitStep ==
  /\ SimInit
  /\ SpIdle
  /\ ViewIdle
  /\ callPc = "step-input"
  /\ \E graph \in StepGraphs, seed \in RandomSeeds, atOrigin \in BOOLEAN,
        f \in StepFocusIds, w \in WaveIds, m \in SimMetrics :
       callArgs = [nodes |-> stepNodes(graph.nodes, seed, atOrigin), edges |-> graph.edges,
                   focusNodeId |-> f, waveFocusId |-> w, metric |-> m]
  /\ callResult = <<>>

\* one simulationStep on the buffer of the call
callSimulationStep ==
  /\ callPc = "step-input"
  /\ callResult' = simulationStages(callArgs.nodes, indexById(callArgs.nodes), callArgs.edges,
                                    callArgs.focusNodeId, callArgs.waveFocusId, callArgs.metric)
  /\ callPc' = "step-done"
  /\ UNCHANGED <<callArgs, simVars, spVars, viewVars>>

NextStep == callSimulationStep

SpecStep == InitStep /\ [][NextStep]_vars

\* ------------------------------------------------------------------------
\* The number type over its whole range.  A number is a binary floating-point
\* value s * m * 2^e with the exponent range of the 64-bit format (finite
\* values lie below 2^1024, positive ones at or above 2^-1074), the two
\* infinities and NaN; the significand m is kept to PrecBits bits, rounded
\* to nearest, ties to even.  The sign of a zero is not kept.
\* ------------------------------------------------------------------------
PrecBits == 14
MaxExponent == 1024
MinExponent == -1074

FZero == [k |-> "fin", s |-> 1, m |-> 0, e |-> 0]
FInf(s) == [k |-> "inf", s |-> s, m |-> 0, e |-> 0]
FNaN == [k |-> "nan", s |-> 1, m |-> 0, e |-> 0]

\* the number of binary digits of m, 0 <= m < 2^31
RECURSIVE bitSearch(_, _, _)
bitSearch(m, lo, hi) ==
  IF lo >= hi THEN lo
  ELSE LET mid == (lo + hi + 1) \div 2
       IN  IF m >= 2^(mid - 1) THEN bitSearch(m, mid, hi)
           ELSE bitSearch(m, lo, mid - 1)

\* the value s * m * 2^e, m of exactly PrecBits digits, if the format holds
\* it: overflow gives an infinity, a magnitude below 2^-1074 gives zero
fpack(s, m, e) ==
  IF e + PrecBits > MaxExponent THEN FInf(s)
  ELSE IF e + PrecBits - 1 < MinExponent THEN FZero
  ELSE [k |-> "fin", s |-> s, m |-> m, e |-> e]

\* the number nearest to s * m * 2^e, 0 <= m < 2^31
fround(s, m, e) ==
  IF m = 0 THEN FZero
  ELSE LET drop == bitSearch(m, 0, 31) - PrecBits
       IN  IF drop <= 0 THEN fpack(s, m * 2^(-drop), e + drop)
           ELSE LET q == m \div 2^drop
                    r == m % 2^drop
                    half == 2^(drop - 1)
                    q1 == IF r > half \/ (r = half /\ q % 2 = 1) THEN q + 1 ELSE q
                IN  IF q1 = 2^PrecBits THEN fpack(s, 2^(PrecBits - 1), e + drop + 1)
                    ELSE fpack(s, q1, e + drop)

fromInt(n) == fround(IF n < 0 THEN -1 ELSE 1, Abs(n), 0)

fisFinite(a) == a.k = "fin"
fisZero(a) == a.k = "fin" /\ a.m = 0

fneg(a) == IF a.k = "nan" \/ fisZero(a) THEN a ELSE [a EXCEPT !.s = -a.s]

\* a + b
fadd(a, b) ==
  IF a.k = "nan" \/ b.k = "nan" THEN FNaN
  ELSE IF a.k = "inf" THEN (IF b.k = "inf" /\ b.s # a.s THEN FNaN ELSE a)
  ELSE IF b.k = "inf" THEN b
  ELSE IF a.m = 0 THEN b
  ELSE IF b.m = 0 THEN a
  ELSE LET hi == IF a.e >= b.e THEN a ELSE b
           lo == IF a.e >= b.e THEN b ELSE a
           diff == hi.e - lo.e
       IN  IF diff > PrecBits + 2 THEN hi
           ELSE LET sum == hi.s * hi.m * 2^diff + lo.s * lo.m
                IN  fround(IF sum < 0 THEN -1 ELSE 1, Abs(sum), lo.e)

fsub(a, b) == fadd(a, fneg(b))

\* a * b
fmul(a, b) ==
  IF a.k = "nan" \/ b.k = "nan" THEN FNaN
  ELSE IF a.k = "inf" \/ b.k = "inf"
       THEN (IF fisZero(a) \/ fisZero(b) THEN FNaN ELSE FInf(a.s * b.s))
  ELSE fround(a.s * b.s, a.m * b.m, a.e + b.e)

\* a / b
fdiv(a, b) ==
  IF a.k = "nan" \/ b.k = "nan" THEN FNaN
  ELSE IF a.k = "inf" THEN (IF b.k = "inf" THEN FNaN ELSE FInf(a.s * b.s))
  ELSE IF b.k = "inf" THEN FZero
  ELSE IF b.m = 0 THEN (IF a.m = 0 THEN FNaN ELSE FInf(a.s))
  ELSE IF a.m = 0 THEN FZero
  ELSE LET num == a.m * 2^(PrecBits + 2)
           q == num \div b.m
           sticky == IF num % b.m = 0 THEN 0 ELSE 1
       IN  fround(a.s * b.s, 2 * q + sticky, a.e - b.e - (PrecBits + 3))

\* Math.sqrt(a)
fsqrt(a) ==
  IF a.k = "nan" THEN FNaN
  ELSE IF fisZero(a) THEN FZero
  ELSE IF a.s < 0 THEN FNaN
  ELSE IF a.k = "inf" THEN a
  ELSE LET shift == IF a.e % 2 = 0 THEN PrecBits + 2 ELSE PrecBits + 1
           big == a.m * 2^shift
           r == ISqrt(big)
           sticky == IF r * r = big THEN 0 ELSE 1
       IN  fround(1, 2 * r + sticky, ((a.e - shift) \div 2) - 1)

\* a < b
flt(a, b) ==
  LET d == fsub(a, b)
  IN  d.k # "nan" /\ d.s < 0 /\ ~fisZero(d)

\* the number nearest to n / d
fromRatio(n, d) == fdiv(fromInt(n), fromInt(d))

\* ------------------------------------------------------------------------
\* simulationStep over that number type: the same statements as above, each
\* arithmetic operation rounded and liable to overflow as the format's is
\* ------------------------------------------------------------------------
\* const name = v; Body(name): the value is computed once and then used
Const(v, Body(_)) == Body(v)

\* Math.hypot(a, b): the root of the sum of the squares, formed on the
\* arguments scaled below 1 so that no square overflows
fhypot(a, b) ==
  IF a.k = "inf" \/ b.k = "inf" THEN FInf(1)
  ELSE IF a.k = "nan" \/ b.k = "nan" THEN FNaN
  ELSE IF a.m = 0 THEN [b EXCEPT !.s = 1]
  ELSE IF b.m = 0 THEN [a EXCEPT !.s = 1]
  ELSE Const(Max(a.e, b.e) + PrecBits, LAMBDA scale :
       Const([a EXCEPT !.e = @ - scale], LAMBDA sa :
       Const([b EXCEPT !.e = @ - scale], LAMBDA sb :
       Const(fsqrt(fadd(fmul(sa, sa), fmul(sb, sb))), LAMBDA r :
         fpack(1, r.m, r.e + scale)))))

\* one iteration of the spring loop (springStrength above is in 1e-5)
springEdgeFloat(ns, byId, edge, waveId) ==
  IF edge.source \notin DOMAIN byId \/ edge.target \notin DOMAIN byId THEN ns
  ELSE Const(byId[edge.source], LAMBDA si :
       Const(byId[edge.target], LAMBDA ti :
       Const(fsub(ns[ti].x, ns[si].x), LAMBDA dx :
       Const(fsub(ns[ti].y, ns[si].y), LAMBDA dy :
       Const(fhypot(dx, dy), LAMBDA h :
       \* Math.hypot(dx, dy) || 1e-6
       Const(IF fisZero(h) \/ h.k = "nan" THEN fromRatio(1, 1000000) ELSE h, LAMBDA distance :
       Const(IF waveId # "" /\ (edge.source = waveId \/ edge.target = waveId)
             THEN fmul(fromRatio(springStrength(edge.type), 100000), fromRatio(23, 10))
             ELSE fromRatio(springStrength(edge.type), 100000), LAMBDA strength :
       Const(fmul(fsub(distance, fromInt(baseLength(edge.type))), strength), LAMBDA force :
       Const(fmul(force, fdiv(dx, distance)), LAMBDA fx :
       Const(fmul(force, fdiv(dy, distance)), LAMBDA fy :
         [ns EXCEPT ![si].vx = fadd(@, fx), ![si].vy = fadd(@, fy),
                    ![ti].vx = fsub(@, fx), ![ti].vy = fsub(@, fy)]))))))))))

\* the spring loop: the edges of the first half of the list, then, on the
\* buffer these leave, those of the second half
RECURSIVE applySpringsFloat(_, _, _, _)
applySpringsFloat(ns, byId, es, waveId) ==
  IF es = <<>> \/ ns = <<>> THEN ns
  ELSE IF Len(es) = 1 THEN springEdgeFloat(ns, byId, es[1], waveId)
  ELSE LET mid == Len(es) \div 2
       IN  applySpringsFloat(applySpringsFloat(ns, byId, SubSeq(es, 1, mid), waveId),
                             byId, SubSeq(es, mid + 1, Len(es)), waveId)

\* 80 + 620 * normalizedDistance, times 0.55 for the wave focus and its
\* neighbours; the distances are those of shortestDistances, in 1/WScale
targetRadiusFloat(node, distances, maxDistance, waveId, waveNeighbors) ==
  Const(gravityDistance(distances, node.id), LAMBDA distance :
  Const(IF isFinite(distance) THEN fromRatio(distance, maxDistance) ELSE fromInt(1),
        LAMBDA normalized :
  Const(fadd(fromInt(80), fmul(fromInt(620), normalized)), LAMBDA r :
    IF waveId # "" /\ (node.id \in waveNeighbors \/ node.id = waveId)
    THEN fmul(r, fromRatio(55, 100)) ELSE r)))

\* one iteration of the radial gravity loop; the cosine and sine of
\* atan2(y, x) are x / h and y / h with h = hypot(x, y), and atan2(0, 0) = 0
gravityNodeFloat(node, distances, maxDistance, waveId, waveNeighbors) ==
  Const(targetRadiusFloat(node, distances, maxDistance, waveId, waveNeighbors), LAMBDA tr :
  Const(fhypot(node.x, node.y), LAMBDA h :
  Const(IF fisZero(h) THEN fromInt(1) ELSE fdiv(node.x, h), LAMBDA cosA :
  Const(IF fisZero(h) THEN FZero ELSE fdiv(node.y, h), LAMBDA sinA :
  Const(IF waveId # "" THEN fromRatio(3, 100) ELSE fromRatio(2, 100), LAMBDA gravityStrength :
    [node EXCEPT !.vx = fadd(@, fmul(fsub(fmul(cosA, tr), node.x), gravityStrength)),
                 !.vy = fadd(@, fmul(fsub(fmul(sinA, tr), node.y), gravityStrength))])))))

\* the gravity loop (the buffer is built node by node)
RECURSIVE applyGravityFloat(_, _, _, _, _, _)
applyGravityFloat(ns, k, distances, maxDistance, waveId, waveNeighbors) ==
  IF k > Len(ns) THEN ns
  ELSE applyGravityFloat(
         [ns EXCEPT ![k] = gravityNodeFloat(@, distances, maxDistance, waveId, waveNeighbors)],
         k + 1, distances, maxDistance, waveId, waveNeighbors)

\* Pin focus nodes
pinFocusFloat(ns, byId, focusId) ==
  IF focusId \in DOMAIN byId
  THEN [ns EXCEPT ![byId[focusId]].x = FZero, ![byId[focusId]].y = FZero,
                  ![byId[focusId]].vx = FZero, ![byId[focusId]].vy = FZero]
  ELSE ns

\* Special positioning for "oneness" node
pinOnenessFloat(ns, byId, focusId) ==
  IF "oneness" \in DOMAIN byId
  THEN [ns EXCEPT ![byId["oneness"]].x = IF focusId # "oneness" THEN fromInt(-300) ELSE FZero,
                  ![byId["oneness"]].y = FZero,
                  ![byId["oneness"]].vx = FZero, ![byId["oneness"]].vy = FZero]
  ELSE ns

\* the body of the inner loop for the pair (i, j); the radii are
\* 15 + Math.min(110, (label?.length || 0) * 3.0)
repelPairFloat(ns, i, j) ==
  Const(fsub(ns[j].x, ns[i].x), LAMBDA dx :
  Const(fsub(ns[j].y, ns[i].y), LAMBDA dy :
  Const(fadd(fmul(dx, dx), fmul(dy, dy)), LAMBDA distanceSquared :
    IF fisZero(distanceSquared)
    THEN Const(fromRatio(1, 2), LAMBDA nudge :
           [ns EXCEPT ![i].vx = fsub(@, nudge), ![i].vy = fsub(@, nudge),
                      ![j].vx = fadd(@, nudge), ![j].vy = fadd(@, nudge)])
    ELSE Const(fsqrt(distanceSquared), LAMBDA distance :
         Const(fdiv(fromInt(repulsionBase(ns[i], ns[j])),
                    fadd(distanceSquared, fromInt(10))), LAMBDA repulsion :
         Const(fdiv(fmul(repulsion, dx), distance), LAMBDA rx :
         Const(fdiv(fmul(repulsion, dy), distance), LAMBDA ry :
         Const(fadd(fromInt(15 + Min(110, ns[i].labelLen * 3)),
                    fromInt(15 + Min(110, ns[j].labelLen * 3))), LAMBDA minDistance :
         Const(flt(distance, minDistance), LAMBDA collide :
         Const(fmul(fsub(minDistance, distance), fromRatio(5, 100)), LAMBDA pushForce :
         Const(IF collide THEN fdiv(fmul(pushForce, dx), distance) ELSE FZero, LAMBDA px :
         Const(IF collide THEN fdiv(fmul(pushForce, dy), distance) ELSE FZero, LAMBDA py :
           [ns EXCEPT ![i].vx = fsub(@, rx), ![i].vy = fsub(@, ry),
                      ![j].vx = fadd(@, rx), ![j].vy = fadd(@, ry),
                      ![i].x = fsub(@, px), ![i].y = fsub(@, py),
                      ![j].x = fadd(@, px), ![j].y = fadd(@, py)]))))))))))))

\* the nested loops over i < j
RECURSIVE applyRepulsionFloat(_, _, _)
applyRepulsionFloat(ns, i, j) ==
  IF i > Len(ns) THEN ns
  ELSE IF j > Len(ns) THEN applyRepulsionFloat(ns, i + 1, i + 2)
  ELSE applyRepulsionFloat(repelPairFloat(ns, i, j), i, j + 1)

\* Integration with damping
RECURSIVE integrateFloat(_, _)
integrateFloat(ns, k) ==
  IF k > Len(ns) THEN ns
  ELSE Const(fmul(ns[k].vx, fromRatio(86, 100)), LAMBDA vx :
       Const(fmul(ns[k].vy, fromRatio(86, 100)), LAMBDA vy :
         integrateFloat([ns EXCEPT ![k].vx = vx, ![k].vy = vy,
                                   ![k].x = fadd(@, vx), ![k].y = fadd(@, vy)],
                        k + 1)))

\* one tick: the node buffer after simulationStep
simulationStepFloat(ns, byId, es, focusNodeId0, waveFocusId0, metric0) ==
  LET focusId == effectiveFocus(focusNodeId0, waveFocusId0)
      distances == shortestDistances(ns, es, metric0, focusId)
      maxDistance == maxDistanceOf(distances)
      waveNeighbors == IF waveFocusId0 # "" THEN getWaveNeighbors(es, waveFocusId0) ELSE {}
      sprung == applySpringsFloat(ns, byId, es, waveFocusId0)
      pulled == applyGravityFloat(sprung, 1, distances, maxDistance, waveFocusId0, waveNeighbors)
      pinned == pinOnenessFloat(pinFocusFloat(pulled, byId, focusId), byId, focusId)
      repelled == applyRepulsionFloat(pinned, 1, 2)
  IN  integrateFloat(repelled, 1)

\* ------------------------------------------------------------------------
\* simulationStep repeated from the layout setData draws, as the running
\* loop repeats it
\* ------------------------------------------------------------------------
\* the graphs the loop runs on: the root with two nodes in a chain, and the
\* same nodes with NumParallel edges between the last two, as a data set
\* with several relations between one pair of entries lists them
TickGraphPool ==
  << [nodes |-> <<NodePool[1], NodePool[2], NodePool[4]>>,
      edges |-> <<EdgePool[1], EdgePool[4]>>],
     [nodes |-> <<NodePool[1], NodePool[2], NodePool[4]>>,
      edges |-> <<EdgePool[1]>>
                \o [k \in 1..NumParallel |-> MkEdge("a", "c", "lineage", 80, 70, 90)]] >>

\* the simulation nodes setData builds, over the full number type
tickNodes(ins, seed) ==
  LET ns == simulationNodes(ins, seed)
  IN  [k \in 1..Len(ns) |->
         [ns[k] EXCEPT !.x = fromRatio(@, Q), !.y = fromRatio(@, Q),
                      !.vx = FZero, !.vy = FZero]]

\* setData(graph.nodes, graph.edges) on a new simulation (focus "oneness",
\* no wave focus, metric "combined"), then start(); callArgs names the graph
InitTicks ==
  /\ SimInit
  /\ SpIdle
  /\ ViewIdle
  /\ callPc = "ticking"
  /\ \E g \in DOMAIN TickGraphPool, seed \in RandomSeeds :
       /\ callArgs = [graph |-> g, focusNodeId |-> "oneness",
                      waveFocusId |-> "", metric |-> "combined"]
       /\ callResult = [nodes |-> tickNodes(TickGraphPool[g].nodes, seed), ticks |-> 0]

\* one frame of the running loop: animate() calls simulationStep
tickOnce ==
  /\ callPc = "ticking"
  /\ callResult.ticks < MaxTicks
  /\ callResult' = [nodes |-> simulationStepFloat(callResult.nodes, indexById(callResult.nodes),
                                                  TickGraphPool[callArgs.graph].edges,
                                                  callArgs.focusNodeId,
                                                  callArgs.waveFocusId, callArgs.metric),
                    ticks |-> callResult.ticks + 1]
  /\ UNCHANGED <<callPc, callArgs, simVars, spVars, viewVars>>

SpecTicks == InitTicks /\ [][tickOnce]_vars

\* one more edge allowed: the least of d[v] and d[u] + w over the edges
\* {u,v} of weight w, every edge usable in both directions (the result is
\* merged with the empty function so that it is held as a table)
relaxOnce(ids, es, m, d) ==
  LET via(v) == {d[es[e].source] + edgeWeight(es[e], m) :
                   e \in {x \in 1..Len(es) : es[x].target = v /\ isFinite(d[es[x].source])}}
                \cup
                {d[es[e].target] + edgeWeight(es[e], m) :
                   e \in {x \in 1..Len(es) : es[x].source = v /\ isFinite(d[es[x].target])}}
  IN  [v \in ids |-> IF via(v) = {} THEN d[v] ELSE Min(d[v], SetMin(via(v)))] @@ <<>>

\* the least total weight of a walk of at most k edges from root to each id
RECURSIVE leastWeight(_, _, _, _, _)
leastWeight(ids, es, m, root, k) ==
  IF k = 0 THEN [v \in ids |-> IF v = root THEN 0 ELSE Infinity]
  ELSE relaxOnce(ids, es, m, leastWeight(ids, es, m, root, k - 1))

\* all edge endpoints are active nodes and the root has at least one edge
WellFormedPathInput ==
  /\ \A e \in 1..Len(spEdges) :
       spEdges[e].source \in NodeIds(spNodes) /\ spEdges[e].target \in NodeIds(spNodes)
  /\ adjacencyHas(spEdges, spRoot)

\* ------------------------------------------------------------------------
\* Properties of the tick loop and of the mutators
\* ------------------------------------------------------------------------
currentFocus == effectiveFocus(focusNodeId, waveFocusId)

\* C1: after every completed tick in which the effective focus id resolves
\* to a node of the active set, that node's position is exactly (0,0).
C1_FocusAtOriginAfterTick ==
  (lastOp = "frame" /\ currentFocus \in DOMAIN nodeById)
    => (nodes[nodeById[currentFocus]].x = 0 /\ nodes[nodeById[currentFocus]].y = 0)

\* C2: after stop() or destroy() has returned no simulationStep executes
\* until a later start() or resetLayout(), whatever frames the host runs.
C2_NoTickAfterStop == [][halted => ticks' = ticks]_vars

\* stop() or destroy() was called on a simulation whose loop was scheduled
C2_Witness ==
  /\ lastOp \in {"stop", "destroy"}
  /\ prevOp \in {"start", "resetLayout", "frame"}
  /\ halted
  /\ pending = {}

\* C3: at most one tick callback of the simulation is pending with the host
\* after any sequence of calls and frames, and no frame runs more than one
\* simulationStep; start() on a running simulation does not add a loop.
C3_SingleLoop ==
  /\ [](Cardinality(pending) <= 1 /\ (Running => pending = {animationId}))
  /\ [][ticks' <= ticks + 1]_vars

\* start() called twice in a row
C3_Witness ==
  /\ lastOp = "start"
  /\ prevOp = "start"
  /\ Cardinality(pending) = 1

\* C4: Stopped after construction; setData, setFocus, setMetric and
\* updateConfig leave a Stopped simulation Stopped; start() makes it Running;
\* every executed tick leaves it Running with exactly one newly scheduled
\* tick; stop() makes it Stopped.
C4_StateMachine ==
  /\ ~Running
  /\ [][/\ (lastOp' \in {"setData", "setFocus", "setMetric", "updateConfig"} /\ ~Running)
             => ~Running'
        /\ lastOp' = "start" => Running'
        /\ lastOp' = "stop" => ~Running'
        /\ ticks' > ticks =>
             (Running /\ Running' /\ pending' = {animationId'} /\ animationId' \notin pending)
       ]_vars

\* the loop has run two ticks in a row and is still scheduled
C4_Witness ==
  /\ lastOp = "frame"
  /\ prevOp = "frame"
  /\ ticks >= 2
  /\ Running

\* C5: destroy() leaves the simulation Stopped with empty node and edge
\* buffers and an empty id lookup; a second destroy() changes nothing.
C5_DestroyClears ==
  /\ [](lastOp = "destroy" =>
          (~Running /\ pending = {} /\ nodes = <<>> /\ edges = <<>> /\ DOMAIN nodeById = {}))
  /\ [][(lastOp = "destroy" /\ lastOp' = "destroy") =>
          UNCHANGED <<nodes, edges, nodeById, animationId, config, focusNodeId,
                      waveFocusId, metric, pending, nextHandle>>]_vars

\* destroy() called again on a destroyed simulation that had held a graph
C5_Witness ==
  /\ lastOp = "destroy"
  /\ prevOp = "destroy"
  /\ argNodes # <<>>
  /\ nextHandle > 1

InLayoutBox(n) ==
  /\ -150 * Q <= n.x /\ n.x <= 150 * Q
  /\ -150 * Q <= n.y /\ n.y <= 150 * Q

AtRest(n) == n.vx = 0 /\ n.vy = 0

\* C6: resetLayout() leaves the node ids and the edge list unchanged, puts
\* every node in [-150,150] x [-150,150] with velocity (0,0), and leaves the
\* simulation Running whether it was Running or Stopped before.
C6_ResetLayout ==
  [][lastOp' = "resetLayout" =>
       /\ Len(nodes') = Len(nodes)
       /\ \A k \in 1..Len(nodes) :
            /\ nodes'[k].id = nodes[k].id
            /\ InLayoutBox(nodes'[k])
            /\ AtRest(nodes'[k])
       /\ edges' = edges
       /\ Running'
       /\ pending' = {animationId'}
    ]_vars

\* resetLayout() on a running simulation whose nodes had been moved by a tick
C6_Witness ==
  /\ lastOp = "resetLayout"
  /\ prevOp = "frame"
  /\ Len(nodes) >= 2
  /\ Running

\* C7: setFocus, setMetric and updateConfig leave the buffers, every node's
\* position and velocity, the running state and the pending handle
\* unchanged, and a tick uses the focus ids and the metric last given.
C7_ParametersOnly ==
  [][/\ lastOp' \in {"setFocus", "setMetric", "updateConfig"} =>
          UNCHANGED <<nodes, edges, nodeById, animationId, pending, nextHandle>>
     /\ lastOp' = "setFocus" => UNCHANGED <<metric, config>>
     /\ lastOp' = "setMetric" => UNCHANGED <<focusNodeId, waveFocusId, config>>
     /\ lastOp' = "updateConfig" => UNCHANGED <<focusNodeId, waveFocusId, metric>>
     /\ ticks' = ticks + 1 =>
          nodes' = simulationStep(nodes, nodeById, edges,
                                  argFocus.focus, argFocus.wave, argFocus.metric)
    ]_vars

\* a tick that ran after the focus had been moved to another node with a
\* secondary focus, on a graph with at least two nodes
C7_Witness ==
  /\ lastOp = "frame"
  /\ prevOp \in {"setFocus", "setMetric"}
  /\ argFocus.focus = "a"
  /\ argFocus.wave = "b"
  /\ Len(nodes) >= 2

\* C8: immediately after setData(nodes, edges) the simulation holds one
\* simulation node per input node, with the same ids in the same order,
\* every x and y in [-150,150] and every velocity (0,0).
C8_SetDataLayout ==
  lastOp = "setData" =>
    /\ Len(nodes) = Len(argNodes)
    /\ \A k \in 1..Len(nodes) :
         /\ nodes[k].id = argNodes[k].id
         /\ InLayoutBox(nodes[k])
         /\ AtRest(nodes[k])
    /\ DOMAIN nodeById = NodeIds(argNodes)

\* setData() on a simulation whose previous nodes had been moved by a tick
C8_Witness ==
  /\ lastOp = "setData"
  /\ prevOp = "frame"
  /\ Len(nodes) >= 2

\* C9: shortestDistances(root) gives the root distance 0 for every root id
\* in the active node set, whether or not the root has an incident edge.
C9_RootDistanceZero ==
  (spPc = "done" /\ spRoot \in NodeIds(spNodes)) => spDist[spRoot] = 0

\* C10: for a well-formed graph and a root with at least one edge,
\* shortestDistances returns for every node the least total weight over
\* all paths from the root with edges usable in both directions (Infinity
\* when there is none); distances are non-negative and d(v) <= d(u) + w for
\* every edge {u,v} of weight w.
C10_ShortestPaths ==
  (spPc = "done" /\ WellFormedPathInput) =>
    /\ spDist = leastWeight(NodeIds(spNodes), spEdges, spMetric, spRoot, Len(spNodes))
    /\ \A v \in DOMAIN spDist : spDist[v] >= 0
    /\ \A e \in 1..Len(spEdges) :
         LET u == spEdges[e].source
             v == spEdges[e].target
             w == edgeWeight(spEdges[e], spMetric)
         IN  /\ isFinite(spDist[u]) => spDist[v] <= spDist[u] + w
             /\ isFinite(spDist[v]) => spDist[u] <= spDist[v] + w

\* a triangle in which the two-edge path beats the direct edge: the direct
\* neighbour's first distance is lowered by a later relaxation
C10_Witness ==
  /\ spPc = "done"
  /\ WellFormedPathInput
  /\ \E e \in 1..Len(spEdges) :
       /\ spRoot \in {spEdges[e].source, spEdges[e].target}
       /\ spEdges[e].source # spEdges[e].target
       /\ LET v == IF spEdges[e].source = spRoot THEN spEdges[e].target
                   ELSE spEdges[e].source
          IN  spDist[v] < edgeWeight(spEdges[e], spMetric)
                /\ \A f \in 1..Len(spEdges) :
                     {spEdges[f].source, spEdges[f].target} = {spRoot, v}
                       => spDist[v] < edgeWeight(spEdges[f], spMetric)

\* ------------------------------------------------------------------------
\* Properties of edgeWeight and passByMetric
\* ------------------------------------------------------------------------
\* the scores of the edge under evaluation are all present
ScoresPresent ==
  /\ callArgs.edge.meaning # Absent
  /\ callArgs.edge.influence # Absent
  /\ callArgs.edge.chronology # Absent

\* 30 times the composite score S of scores m, i, c under a metric: the
\* weighted sum for combined, the score itself for a single metric, the
\* unweighted average for any other metric
compositeScore(m, i, c, mt) ==
  CASE mt = "combined"   -> 12 * m + 12 * i + 6 * c
    [] mt = "meaning"    -> 30 * m
    [] mt = "influence"  -> 30 * i
    [] mt = "chronology" -> 30 * c
    [] OTHER                 -> 10 * (m + i + c)

\* C12: edgeWeight returns exactly 1.0 for every lineage edge, for every
\* metric, recognized or not, and whatever scores the edge carries.
C12_LineageWeightOne ==
  (callPc = "edge-done" /\ callArgs.edge.type = "lineage") => callResult.weight = WScale

\* a lineage edge whose scores would give another weight, under an
\* unrecognized metric
C12_Witness ==
  /\ callPc = "edge-done"
  /\ callArgs.edge.type = "lineage"
  /\ callArgs.metric = "unknown"
  /\ callArgs.edge.meaning = 0
  /\ callArgs.edge.influence = 43
  /\ callResult.weight = WScale

\* C13: for every metric and every non-lineage edge with scores in 0..100
\* the weight is strictly decreasing in the composite score S, lies in
\* [1.0, 2.8], is 1.0 at S = 100 and 2.8 at S = 0.
C13_WeightDecreasing ==
  (callPc = "edge-done" /\ callArgs.edge.type # "lineage" /\ ScoresPresent) =>
    LET e == callArgs.edge
        S == compositeScore(e.meaning, e.influence, e.chronology, callArgs.metric)
    IN  /\ callResult.weight >= WScale
        /\ 10 * callResult.weight <= 28 * WScale
        /\ S = 3000 => callResult.weight = WScale
        /\ S = 0 => 10 * callResult.weight = 28 * WScale
        /\ \A m \in Scores, i \in Scores, c \in Scores :
             LET S2 == compositeScore(m, i, c, callArgs.metric)
                 w2 == edgeWeight(MkEdge(e.source, e.target, e.type, m, i, c), callArgs.metric)
             IN  /\ S2 > S => w2 < callResult.weight
                 /\ S2 = S => w2 = callResult.weight

\* an edge strictly between the extremes under the combined metric, with a
\* heavier and a lighter edge among the inputs
C13_Witness ==
  /\ callPc = "edge-done"
  /\ callArgs.edge.type = "cross"
  /\ callArgs.metric = "combined"
  /\ ScoresPresent
  /\ callResult.weight > WScale
  /\ 10 * callResult.weight < 28 * WScale
  /\ callArgs.edge.meaning # callArgs.edge.influence
  /\ callArgs.edge.influence # callArgs.edge.chronology

\* C14: passByMetric is true exactly when: combined and 0.4 * meaning +
\* 0.4 * influence + 0.2 * chronology >= 60; meaning and meaning >= 65;
\* influence and influence >= 50; chronology and chronology >= 85; and it is
\* false for every unrecognized metric.
C14_PassByMetric ==
  (callPc = "edge-done" /\ ScoresPresent) =>
    LET e == callArgs.edge
    IN  callResult.pass <=>
          CASE callArgs.metric = "combined" ->
                 2 * e.meaning + 2 * e.influence + e.chronology >= 300
            [] callArgs.metric = "meaning"    -> e.meaning >= 65
            [] callArgs.metric = "influence"  -> e.influence >= 50
            [] callArgs.metric = "chronology" -> e.chronology >= 85
            [] OTHER                          -> FALSE

\* C19: no configuration value makes the core fail: under an unrecognized
\* metric edgeWeight uses the unweighted average of the three scores, absent
\* scores count as 70 / 50 / 90, and an unrecognized edge type gets spring
\* length 140 and stiffness 0.03.
C19_Fallbacks ==
  callPc = "edge-done" =>
    LET e == callArgs.edge
        m == IF e.meaning = Absent THEN 70 ELSE e.meaning
        i == IF e.influence = Absent THEN 50 ELSE e.influence
        c == IF e.chronology = Absent THEN 90 ELSE e.chronology
    IN  /\ (e.type # "lineage" /\ callArgs.metric \notin {"combined", "meaning", "influence", "chronology"})
             => 500 * (callResult.weight - WScale) = 3 * WScale * (300 - (m + i + c))
        /\ e.type # "lineage"
             => 30000 * (callResult.weight - WScale)
                  = 18 * WScale * (3000 - compositeScore(m, i, c, callArgs.metric))
        /\ e.type \notin {"lineage", "cross", "wave", "archetype"}
             => (callResult.baseLength = 140 /\ callResult.springStrength = 3000)

\* an edge of an unlisted type without scores, under an unlisted metric: its
\* weight is that of the average of 70, 50 and 90
C19_Witness ==
  /\ callPc = "edge-done"
  /\ callArgs.edge.type = "resonance"
  /\ callArgs.metric = "unknown"
  /\ ~ScoresPresent
  /\ callArgs.edge.meaning = Absent /\ callArgs.edge.influence = Absent
  /\ callArgs.edge.chronology = Absent
  /\ callResult.weight = WScale + 8100
  /\ callResult.baseLength = 140

\* ------------------------------------------------------------------------
\* Properties of buildActiveGraph
\* ------------------------------------------------------------------------
\* C17: for every filter state, every edge returned by buildActiveGraph has
\* both its source and its target among the returned nodes.
C17_EndpointsActive ==
  callPc = "graph-done" =>
    \A k \in 1..Len(callResult.edges) :
      /\ \E n \in 1..Len(callResult.nodes) : callResult.nodes[n].id = callResult.edges[k].source
      /\ \E n \in 1..Len(callResult.nodes) : callResult.nodes[n].id = callResult.edges[k].target

\* a filter state that returns edges of all three files while the layer cap
\* removes the target q of a lineage, a resonance and a wave edge of the data
C17_Witness ==
  /\ callPc = "graph-done"
  /\ callArgs.layerCap = 2
  /\ \E k \in 1..Len(callResult.edges) : callResult.edges[k].type = "lineage"
  /\ \E k \in 1..Len(callResult.edges) : callResult.edges[k].type = "cross"
  /\ \E k \in 1..Len(callResult.edges) : callResult.edges[k].type = "wave"
  /\ \A n \in 1..Len(callResult.nodes) : callResult.nodes[n].id # "q"
  /\ Len(callResult.edges) < Len(DataSet.lineageEdges) + Len(DataSet.resonanceEdges)
                               + Len(DataSet.waveEdges)

\* C29: for a resonance edge with an absent meaning, influence or
\* chronology score, buildActiveGraph tests the metric threshold with the
\* default scores 70/50/90 with which edgeWeight weighs the edge: when
\* resonances are shown and both endpoints of such an edge are shown, the
\* edge is returned exactly if the scores edgeWeight uses pass the metric.
C29_SameDefaults ==
  (callPc = "graph-done" /\ callArgs.showResonances) =>
    \A k \in 1..Len(DataSet.resonanceEdges) :
      (/\ \/ DataSet.resonanceEdges[k].meaning = Absent
          \/ DataSet.resonanceEdges[k].influence = Absent
          \/ DataSet.resonanceEdges[k].chronology = Absent
       /\ endpointsShown(DataSet.resonanceEdges[k], callResult.nodes, callArgs)) =>
        ((\E j \in 1..Len(callResult.edges) : callResult.edges[j] = DataSet.resonanceEdges[k])
           <=> passByMetric(Nullish(DataSet.resonanceEdges[k].meaning, 70),
                            Nullish(DataSet.resonanceEdges[k].influence, 50),
                            Nullish(DataSet.resonanceEdges[k].chronology, 90),
                            callArgs.metric))

\* ------------------------------------------------------------------------
\* Properties of one tick
\* ------------------------------------------------------------------------
\* the effective focus of the call: the secondary focus id when it is
\* non-empty, the primary focus id otherwise
stepFocus ==
  IF callArgs.waveFocusId # "" THEN callArgs.waveFocusId ELSE callArgs.focusNodeId

stepIds == {callArgs.nodes[k].id : k \in 1..Len(callArgs.nodes)}

stepIndex(id) == CHOOSE k \in 1..Len(callArgs.nodes) : callArgs.nodes[k].id = id

\* the ids joined to the ids of S by a chain of edges, in either direction
RECURSIVE reachSet(_, _)
reachSet(es, S) ==
  LET T == S \cup {es[e].target : e \in {x \in 1..Len(es) : es[x].source \in S}}
             \cup {es[e].source : e \in {x \in 1..Len(es) : es[x].target \in S}}
  IN  IF T = S THEN S ELSE reachSet(es, T)

\* node k of the call has no path to the effective focus
stepNoPath(k) == callArgs.nodes[k].id \notin reachSet(callArgs.edges, {stepFocus})

\* node k is the secondary focus or joined to it by a wave edge
stepTightened(k) ==
  /\ callArgs.waveFocusId # ""
  /\ \/ callArgs.nodes[k].id = callArgs.waveFocusId
     \/ \E e \in 1..Len(callArgs.edges) :
          /\ callArgs.edges[e].type = "wave"
          /\ {callArgs.edges[e].source, callArgs.edges[e].target}
               = {callArgs.waveFocusId, callArgs.nodes[k].id}

\* the outer ring: radius 700, or 385 for a tightened node
stepOuterRing(k) == IF stepTightened(k) THEN 385 * Q ELSE 700 * Q

\* C11: a node with no path to the effective focus gets distance Infinity,
\* is still processed by the radial-gravity step, and gets normalized
\* distance 1, i.e. target radius 700 (385 when tightened), the same as the
\* farthest reachable node.
C11_UnreachableOuterRing ==
  callPc = "step-done" =>
    \A k \in 1..Len(callArgs.nodes) :
      LET id == callArgs.nodes[k].id
          asFarthest == [callResult.distances EXCEPT ![id] = callResult.maxDistance]
          neighbors == IF callArgs.waveFocusId # ""
                       THEN getWaveNeighbors(callArgs.edges, callArgs.waveFocusId) ELSE {}
      IN  /\ stepNoPath(k) =>
               /\ callResult.distances[id] = Infinity
               /\ callResult.radius[k] = stepOuterRing(k)
               /\ callResult.pulled[k] =
                    gravityNode(callResult.sprung[k], asFarthest, callResult.maxDistance,
                                callArgs.waveFocusId, neighbors)
          /\ (callResult.distances[id] = callResult.maxDistance /\ callResult.maxDistance > 0)
               => callResult.radius[k] = stepOuterRing(k)

\* a tick with a node that has no path to the focus, which the gravity loop
\* moves, and a farthest reachable node at a finite distance
C11_Witness ==
  /\ callPc = "step-done"
  /\ \E k \in 1..Len(callArgs.nodes) :
       /\ stepNoPath(k)
       /\ callResult.radius[k] = 700 * Q
       /\ callResult.pulled[k] # callResult.sprung[k]
  /\ \E j \in 1..Len(callArgs.nodes) :
       /\ ~stepNoPath(j)
       /\ callArgs.nodes[j].id # stepFocus
       /\ callResult.distances[callArgs.nodes[j].id] = callResult.maxDistance
       /\ callResult.radius[j] = 700 * Q

\* edge e of the call has an endpoint that is no node of the call
stepDangling(e) ==
  callArgs.edges[e].source \notin stepIds \/ callArgs.edges[e].target \notin stepIds

\* the edge list without its e-th edge
stepEdgesWithout(e) ==
  SubSeq(callArgs.edges, 1, e - 1) \o SubSeq(callArgs.edges, e + 1, Len(callArgs.edges))

\* C16: when the focus is an active node, an edge whose source or target is
\* not in the active node set changes nothing: positions and velocities
\* after the tick equal those obtained with that edge removed.
C16_DanglingEdgeIgnored ==
  (callPc = "step-done" /\ stepFocus \in stepIds) =>
    \A e \in 1..Len(callArgs.edges) :
      stepDangling(e) =>
        callResult.out = simulationStep(callArgs.nodes, indexById(callArgs.nodes),
                                        stepEdgesWithout(e), callArgs.focusNodeId,
                                        callArgs.waveFocusId, callArgs.metric)

\* a tick on a graph where the active focus has an edge to an id that is no
\* node, and that id has an edge to an active node
C16_Witness ==
  /\ callPc = "step-done"
  /\ stepFocus \in stepIds
  /\ \E e \in 1..Len(callArgs.edges), f \in 1..Len(callArgs.edges) :
       /\ callArgs.edges[e].source = stepFocus
       /\ callArgs.edges[e].target \notin stepIds
       /\ callArgs.edges[f].source = callArgs.edges[e].target
       /\ callArgs.edges[f].target \in stepIds
       /\ callResult.distances[callArgs.edges[f].target] = Infinity
  /\ \E k \in 1..Len(callArgs.nodes) :
       /\ callResult.distances[callArgs.nodes[k].id] > 0
       /\ callResult.distances[callArgs.nodes[k].id] < Infinity

\* the edges of the call whose endpoints are both nodes of the call
stepActiveEdges ==
  LET Active(edge) == edge.source \in stepIds /\ edge.target \in stepIds
  IN  SelectSeq(callArgs.edges, Active)

\* C20: in each tick the effective focus is the secondary focus id when it
\* is non-empty and the primary focus id otherwise: distances are computed
\* from it and it alone is pinned as focus, so with a secondary focus set
\* the primary focus node is not pinned (unless it is the node 'oneness').
C20_EffectiveFocus ==
  callPc = "step-done" =>
    /\ (stepFocus \in stepIds /\ adjacencyHas(callArgs.edges, stepFocus)) =>
         callResult.distances
           = leastWeight(stepIds, stepActiveEdges, callArgs.metric, stepFocus,
                         Len(callArgs.nodes))
    /\ \A k \in 1..Len(callArgs.nodes) :
         LET id == callArgs.nodes[k].id
         IN  IF id = stepFocus
             THEN /\ callResult.pinned[k].x = 0 /\ callResult.pinned[k].y = 0
                  /\ callResult.pinned[k].vx = 0 /\ callResult.pinned[k].vy = 0
             ELSE IF id = "oneness"
             THEN /\ callResult.pinned[k].x = -300 * Q /\ callResult.pinned[k].y = 0
                  /\ callResult.pinned[k].vx = 0 /\ callResult.pinned[k].vy = 0
             ELSE callResult.pinned[k] = callResult.pulled[k]

\* a tick with both foci among the nodes: the secondary focus is pinned at
\* the origin and the primary focus, pulled by gravity, is left where it is
C20_Witness ==
  /\ callPc = "step-done"
  /\ callArgs.waveFocusId = "b"
  /\ callArgs.focusNodeId = "a"
  /\ {"a", "b"} \subseteq stepIds
  /\ callResult.pinned[stepIndex("b")].x = 0
  /\ callResult.pulled[stepIndex("b")].vx # 0
  /\ callResult.pinned[stepIndex("a")].vx # 0
  /\ callResult.pinned[stepIndex("a")].x # 0
  /\ callResult.distances["b"] = 0
  /\ callResult.distances["a"] > 0

\* the tick of the call without its spring and gravity loops: the two
\* pinning blocks, the repulsion and collision loops and the integration
stepRepulsionOnly ==
  LET byId == indexById(callArgs.nodes)
      pinned == pinOneness(pinFocus(callArgs.nodes, byId, stepFocus), byId, stepFocus)
  IN  integrate(applyRepulsion(pinned, 1, 2))

\* node k of the call is pinned: it is the effective focus or 'oneness'
stepPinned(k) == callArgs.nodes[k].id \in {stepFocus, "oneness"}

\* C21: in every tick the pinning step sets the root node 'oneness' to (0,0)
\* when it is the effective focus and to (-300,0) otherwise, with velocity
\* (0,0); the spring and gravity contributions of the tick are discarded for
\* every pinned node, whose position after the tick depends only on the
\* tick's repulsion and collision terms.
C21_PinningDiscards ==
  callPc = "step-done" =>
    \A k \in 1..Len(callArgs.nodes) :
      /\ callArgs.nodes[k].id = "oneness" =>
           /\ callResult.pinned[k].x = (IF stepFocus = "oneness" THEN 0 ELSE -300 * Q)
           /\ callResult.pinned[k].y = 0
           /\ callResult.pinned[k].vx = 0
           /\ callResult.pinned[k].vy = 0
      /\ stepPinned(k) =>
           /\ callResult.out[k].x = stepRepulsionOnly[k].x
           /\ callResult.out[k].y = stepRepulsionOnly[k].y
           /\ callResult.out[k].vx = stepRepulsionOnly[k].vx
           /\ callResult.out[k].vy = stepRepulsionOnly[k].vy

\* a tick where 'oneness' is a node and another node is the effective focus:
\* the springs and gravity had given both a velocity, both are pinned, and
\* repulsion moves 'oneness' off its anchor
C21_Witness ==
  /\ callPc = "step-done"
  /\ {"oneness", stepFocus} \subseteq stepIds
  /\ stepFocus # "oneness"
  /\ callResult.sprung[stepIndex("oneness")].vx # 0
  /\ callResult.pulled[stepIndex("oneness")].vx # callResult.sprung[stepIndex("oneness")].vx
  /\ callResult.pulled[stepIndex(stepFocus)].vx # 0
  /\ callResult.pinned[stepIndex("oneness")].x = -300 * Q
  /\ callResult.out[stepIndex("oneness")].x # -300 * Q
  /\ \E k \in 1..Len(callArgs.nodes) :
       ~stepPinned(k) /\ callResult.out[k] # stepRepulsionOnly[k]

\* C22: in the radial-gravity step every node with a finite distance, the
\* focus node at distance 0 included, gets normalized distance
\* distance/maxDistance and target radius 80 + 620 * normalized distance
\* (times 0.55 when tightened); so the target radius is non-decreasing in the
\* distance from the focus among the nodes that are not tightened.
C22_RadiusByDistance ==
  (callPc = "step-done" /\ callResult.maxDistance > 0) =>
    /\ \A k \in 1..Len(callArgs.nodes) :
         LET distance == callResult.distances[callArgs.nodes[k].id]
             r == 80 * Q + MulDiv(620 * Q, MulDiv(distance, U, callResult.maxDistance), U)
         IN  isFinite(distance) =>
               callResult.radius[k] = (IF stepTightened(k) THEN MulDiv(r, 55, 100) ELSE r)
    /\ \A j, k \in 1..Len(callArgs.nodes) :
         LET dj == callResult.distances[callArgs.nodes[j].id]
             dk == callResult.distances[callArgs.nodes[k].id]
         IN  (isFinite(dj) /\ isFinite(dk) /\ ~stepTightened(j) /\ ~stepTightened(k) /\ dj <= dk)
               => callResult.radius[j] <= callResult.radius[k]

\* the sum of one coordinate or velocity component over a node buffer
RECURSIVE sumField(_, _)
sumField(ns, field) ==
  IF ns = <<>> THEN 0 ELSE Head(ns)[field] + sumField(Tail(ns), field)

\* C23: the spring step and the repulsion step each change the two nodes of
\* a pair by equal and opposite velocity amounts, and the collision step
\* displaces them by equal and opposite position amounts: the sum of all
\* node velocities is unchanged by the spring and repulsion steps, and an
\* edge from a node to itself applies no net force.
C23_EqualAndOpposite ==
  callPc = "step-done" =>
    LET byId == indexById(callArgs.nodes)
    IN  /\ \A f \in {"vx", "vy"} :
             /\ sumField(callResult.sprung, f) = sumField(callArgs.nodes, f)
             /\ sumField(callResult.repelled, f) = sumField(callResult.pinned, f)
        /\ \A f \in {"x", "y"} :
             /\ sumField(callResult.sprung, f) = sumField(callArgs.nodes, f)
             /\ sumField(callResult.repelled, f) = sumField(callResult.pinned, f)
        /\ \A e \in 1..Len(callArgs.edges) :
             LET edge == callArgs.edges[e]
                 after == springEdge(callArgs.nodes, byId, edge, callArgs.waveFocusId)
             IN  (~stepDangling(e)) =>
                   IF edge.source = edge.target THEN after = callArgs.nodes
                   ELSE \A f \in {"vx", "vy"} :
                          after[byId[edge.source]][f] - callArgs.nodes[byId[edge.source]][f]
                            = callArgs.nodes[byId[edge.target]][f] - after[byId[edge.target]][f]
        /\ \A i, j \in 1..Len(callArgs.nodes) :
             LET after == repelPair(callResult.pinned, i, j)
             IN  i < j =>
                   \A f \in {"vx", "vy", "x", "y"} :
                     after[i][f] - callResult.pinned[i][f]
                       = callResult.pinned[j][f] - after[j][f]

\* a tick where the springs and the repulsion changed velocities, a pair
\* closer than its collision distance was pushed apart, and the edge list
\* holds an edge from a node to itself
C23_Witness ==
  /\ callPc = "step-done"
  /\ \E e \in 1..Len(callArgs.edges) :
       /\ callArgs.edges[e].source = callArgs.edges[e].target
       /\ ~stepDangling(e)
  /\ \E k \in 1..Len(callArgs.nodes) :
       /\ callResult.sprung[k].vx # callArgs.nodes[k].vx
       /\ callResult.repelled[k].vx # callResult.pinned[k].vx
       /\ callResult.repelled[k].x # callResult.pinned[k].x

\* ------------------------------------------------------------------------
\* Termination of shortestDistances
\* ------------------------------------------------------------------------
\* C24: shortestDistances terminates on every finite edge list with weights
\* >= 1, graphs with cycles, self-loops and parallel edges included.
\* The while loop makes at most one pass per queue entry, and a queue entry
\* is made only by the first entry or by an adjacency entry lowering a
\* distance: at most 2 * (number of edges) + 1 passes, each on an entry whose
\* node has a distance.
C24_Terminates ==
  callPc \in {"dijkstra-loop", "dijkstra-done"} =>
    /\ callResult.passes + Len(callResult.queue) <= 2 * Len(callArgs.edges) + 1
    /\ \A k \in 1..Len(callResult.queue) : callResult.queue[k][2] \in DOMAIN callResult.dist
    /\ callPc = "dijkstra-done" => callResult.queue = <<>>

\* a completed call on three nodes joined in a cycle, with a self-loop on
\* the root, where the loop met a stale queue entry, every node was reached
\* and the map returned is that of shortestDistances
C24_Witness ==
  /\ callPc = "dijkstra-done"
  /\ Len(callArgs.nodes) = 3
  /\ callArgs.rootId = NodePool[1].id
  /\ \E e \in 1..Len(callArgs.edges) :
       callArgs.edges[e].source = callArgs.edges[e].target
  /\ \A pr \in {<<1, 2>>, <<1, 3>>, <<2, 3>>} :
       \E e \in 1..Len(callArgs.edges) :
         {callArgs.edges[e].source, callArgs.edges[e].target}
           = {NodePool[pr[1]].id, NodePool[pr[2]].id}
  /\ \A e \in 1..Len(callArgs.edges) : edgeWeight(callArgs.edges[e], callArgs.metric) >= WScale
  /\ callResult.skipped
  /\ callResult.passes >= 4
  /\ \A id \in DOMAIN callResult.dist : isFinite(callResult.dist[id])
  /\ callResult.dist = shortestDistances(callArgs.nodes, callArgs.edges,
                                         callArgs.metric, callArgs.rootId)

\* ------------------------------------------------------------------------
\* The id lookup of the simulation
\* ------------------------------------------------------------------------
\* C25: after any sequence of setData, resetLayout, destroy and ticks, with
\* unique node ids, the id lookup holds exactly the ids of the current node
\* buffer and maps each id to the node of that id held in the buffer.
C25_LookupMatchesBuffer ==
  /\ DOMAIN nodeById = NodeIds(nodes)
  /\ \A id \in DOMAIN nodeById :
       /\ nodeById[id] \in 1..Len(nodes)
       /\ nodes[nodeById[id]].id = id
  /\ \A j, k \in 1..Len(nodes) : nodes[j].id = nodes[k].id => j = k

\* a second graph given to a simulation that had ticked, then a tick that
\* moved its nodes
C25_Witness ==
  /\ lastOp = "frame"
  /\ prevOp = "setData"
  /\ ticks >= 2
  /\ Len(nodes) >= 3
  /\ \E k \in 1..Len(nodes) : nodes[k].vx # 0
  /\ nodes[nodeById["a"]].id = "a"

\* ------------------------------------------------------------------------
\* Properties of the application state
\* ------------------------------------------------------------------------
\* C26: after any sequence of setter calls (setPerspective,
\* setWavePerspective, setLayerCap, setMetric, setToggle, setSearchQuery,
\* setTransform, updateState) the nodes and edges of getNodes() and
\* getEdges(), which are copies of currentNodes and currentEdges, are the
\* nodes and edges of buildActiveGraph applied to the current state.
C26_GraphMatchesState ==
  /\ currentNodes = buildActiveGraph(DataSet, appState).nodes
  /\ currentEdges = buildActiveGraph(DataSet, appState).edges

\* three calls have changed the metric, a toggle and the layer cap, and the
\* graph is no longer the graph of any state after construction
C26_Witness ==
  /\ appLast.calls = MaxCalls
  /\ appLast.emitted = << "stateChange", "graphChange" >>
  /\ appState.metric = "influence"
  /\ ~appState.showWaves
  /\ appState.layerCap < MaxLayer
  /\ \A showScience \in BOOLEAN, showWaves \in BOOLEAN :
       /\ currentEdges # buildActiveGraph(DataSet, defaultState(MaxLayer, showScience, showWaves)).edges
       /\ currentNodes # buildActiveGraph(DataSet, defaultState(MaxLayer, showScience, showWaves)).nodes

\* the state field a setter compares its argument with
setterField(op) ==
  CASE op = "setPerspective"     -> "perspective"
    [] op = "setWavePerspective" -> "wavePerspective"
    [] op = "setLayerCap"        -> "layerCap"
    [] op = "setMetric"          -> "metric"
    [] op = "setSearchQuery"     -> "searchQuery"
    [] OTHER                     -> ""

\* the call made by a step was a setter called with the value held
calledWithHeld ==
  \/ /\ setterField(appLast'.call.op) # ""
     /\ appLast'.call.value = appState[setterField(appLast'.call.op)]
  \/ /\ appLast'.call.op = "setToggle"
     /\ toggleField(appLast'.call.toggleId) # ""
     /\ appLast'.call.value = appState[toggleField(appLast'.call.toggleId)]

\* the call made by a step was a setter followed by updateGraph(), called
\* with a value other than the one held
calledWithNew ==
  \/ /\ appLast'.call.op \in {"setPerspective", "setWavePerspective", "setLayerCap", "setMetric"}
     /\ appLast'.call.value # appState[setterField(appLast'.call.op)]
  \/ /\ appLast'.call.op = "setToggle"
     /\ toggleField(appLast'.call.toggleId) # ""
     /\ appLast'.call.value # appState[toggleField(appLast'.call.toggleId)]

\* C27: a setter called with the value already held emits no event and
\* leaves state and graph unchanged; called with a new graph-affecting
\* value it emits exactly one stateChange followed by exactly one
\* graphChange; setToggle with an unknown toggle id is a no-op.
C27_SetterEvents ==
  [][/\ calledWithHeld =>
          /\ appLast'.emitted = <<>>
          /\ UNCHANGED <<appState, appTransform, currentNodes, currentEdges>>
     /\ calledWithNew =>
          /\ appLast'.emitted = << "stateChange", "graphChange" >>
          /\ appState' # appState
     /\ (appLast'.call.op = "setToggle" /\ toggleField(appLast'.call.toggleId) = "") =>
          /\ appLast'.emitted = <<>>
          /\ UNCHANGED <<appState, appTransform, currentNodes, currentEdges>>]_vars

\* setLayerCap has lowered the layer cap, and the last call, a setLayerCap
\* with the value then held, has emitted nothing
C27_Witness ==
  /\ appLast.calls = MaxCalls
  /\ appLast.call.op = "setLayerCap"
  /\ appLast.call.value = appState.layerCap
  /\ appState.layerCap < MaxLayer
  /\ appLast.emitted = <<>>

\* the number of times an event was emitted
emittedCount(emitted, event) ==
  Cardinality({k \in 1..Len(emitted) : emitted[k] = event})

\* C28: propagation of one state change terminates: the setToggle calls
\* that Sidebar.updateState makes through ToggleGroup.setToggle while
\* stateChange is being emitted emit no further stateChange or graphChange
\* and do not nest, so one call emits at most one stateChange and triggers
\* at most one graph rebuild.
C28_PropagationTerminates ==
  /\ ~appLast.overflow
  /\ emittedCount(appLast.emitted, "stateChange") <= 1
  /\ emittedCount(appLast.emitted, "graphChange") <= 1
  /\ appLast.nested \in {0, 2 * Cardinality(DOMAIN checkboxes)}
  /\ appLast.nested > 0 =>
       /\ appLast.emitted[1] = "stateChange"
       /\ appLast.call.op # "setSearchQuery" =>
            appLast.emitted = << "stateChange", "graphChange" >>

\* a click on the waves checkbox has changed the state: both listeners
\* have written every checkbox back, each write has called setToggle again,
\* and the call has emitted one stateChange and one graphChange
C28_Witness ==
  /\ appLast.call.op = "setToggle"
  /\ appLast.call.toggleId = "waves"
  /\ appLast.call.value = appState.showWaves
  /\ checkboxes["waves"] = appState.showWaves
  /\ appLast.nested = 2 * Cardinality(DOMAIN checkboxes)
  /\ appLast.emitted = << "stateChange", "graphChange" >>
  /\ ~appLast.overflow

\* ------------------------------------------------------------------------
\* Properties of the view
\* ------------------------------------------------------------------------
\* C18: when the owning visualization is released the simulation is
\* destroyed: afterwards the simulation has no pending tick handle and
\* executes no further simulationStep, whatever frames the host runs.
C18_ReleaseDestroys ==
  /\ [](viewPhase = "released" =>
          (pending = {} /\ animationId = NullHandle /\ nodes = <<>> /\ edges = <<>>))
  /\ [][viewPhase = "released" => ticks' = ticks]_vars

\* a view released while its simulation was running and had ticked, and a
\* frame of the host after the release
C18_Witness ==
  /\ viewPhase = "released"
  /\ lastOp = "frame"
  /\ prevOp = "release"
  /\ ticks >= 1
  /\ Len(argNodes) >= 2
  /\ loopPending # {}

\* C30: after the visualization's release() no per-frame callback of the
\* visualization remains scheduled: once the host has run a frame after the
\* release, neither the tick of the simulation nor the animationLoop of
\* the view is requested again.
C30_LoopStops ==
  (viewPhase = "released" /\ lastOp = "frame") => (pending = {} /\ loopPending = {})

\* C15: given a finite well-formed graph (unique ids, every edge endpoint
\* among the nodes, scores within 0..100), after any number of ticks following
\* setData no node's x, y, vx or vy is NaN or infinite
C15_FiniteCoordinates ==
  callPc = "ticking" =>
    \A k \in 1..Len(callResult.nodes) :
      /\ fisFinite(callResult.nodes[k].x)
      /\ fisFinite(callResult.nodes[k].y)
      /\ fisFinite(callResult.nodes[k].vx)
      /\ fisFinite(callResult.nodes[k].vy)

====
